---- MODULE Spec2Model ----
(***************************************************************************)
(* A state-machine model of the DCAT-BR conversion scripts:                *)
(*   scripts/utils/vocabularies.py  (vocabulary cache and resolver)        *)
(*   scripts/utils/date_utils.py    (date normalizer)                      *)
(*   scripts/api_to_rdf.py          (graph builder)                        *)
(*   scripts/csv_to_rdf.py          (CSV row normalizer)                   *)
(*   scripts/validate_rdf.py        (SHACL validation of a graph)          *)
(*   scripts/evaluate_csv_datasets.py (batch conversion and validation)    *)
(*   scripts/web_scrap.py           (paged download of the catalogue)      *)
(*                                                                         *)
(* Text is a sequence of atoms.  An atom is one character ("a", "A", " ",  *)
(* "-", ...) or a literal of the source that no operation looks into and   *)
(* that is therefore kept whole (an IRI, a base location).  The accented   *)
(* letter u-acute is written "u^" and its capital "U^".                    *)
(***************************************************************************)
EXTENDS Integers, Sequences, FiniteSets, TLC

VARIABLES
    \* ---- vocabularies.py: the process-wide cache and the threads using it
    vocab_cache,   \* _vocab_cache: category -> table, a partial function
    pc,            \* per thread: where it stands inside load_vocab / convert_to_iri
    call,          \* per thread: the call it is running (function, arguments)
    vocab_map,     \* per thread: load_vocab's local variable vocab_map
    ret,           \* per thread: the value load_vocab returned to it
    out,           \* per thread: what the environment answered to its reads
    hist,          \* history: what has happened to each category so far
    ncalls,        \* history: number of calls started (bounded by MaxCalls)
    \* ---- vocabularies.py: one table and one resolution against it
    csv_lines,     \* the content lines of the table's source
    resolved,      \* the last resolution made against the parsed table
    \* ---- date_utils.py
    date_in,       \* the argument of the last normalize_date call
    date_out,      \* what that call returned
    \* ---- csv_to_rdf.py and api_to_rdf.py
    csv_row,       \* the CSV row the record is made from (empty: no CSV row)
    record,        \* the record given to api_to_rdf (its argument data): key -> value
    rdf,           \* the graph api_to_rdf built from it, or that it raised
    rdf_again,     \* the graph a later call of api_to_rdf built from the same record
    \* ---- validate_rdf.py: one call of validate_rdf
    file_content,  \* its argument file_content: the text, and how it parses
    filename,      \* its argument filename
    at,            \* where the call stands
    rdf_format,    \* the format _detect_rdf_format guessed
    data_graph,    \* the graph the last parse attempt filled
    parse_error,   \* the format whose attempt raised last ("" for None)
    parsed,        \* a parse attempt gave a graph with triples
    used_format,   \* the format of that attempt ("" for None)
    formats_to_try,\* the formats the fallback loop has still to try
    attempts,      \* history: the formats parse was called with, in order
    result,        \* the return statement validate_rdf left by ("" before it returns)
    possible_paths,\* the candidate directories _get_shacl_path went through
    shacl_path,    \* the directory _get_shacl_path returned, with the shapes files in it
    shacl_graph,   \* the shapes files loaded into shacl_graph, in order
    ont_graph,     \* the ontology files loaded into ont_graph, in order
    ont_errors,    \* the ontology files whose load raised and was passed over
    engine,        \* what pyshacl.validate gave: conforms, v_graph, v_text
    returned,      \* the tuple validate_rdf returned: conforms, errors, warnings
    \* ---- evaluate_csv_datasets.py: one call of process_csv
    datasets,      \* the records to process, after the limit: their row numbers
    idx,           \* the loop variable idx (counts from 1)
    results,       \* the list results: one entry per record converted and validated
    errors,        \* the list errors: one entry per record that raised
    metadata,      \* the metadata written to the results file
    batch_at,      \* where the call stands
    \* ---- web_scrap.py: one call of _detail_to_row_5k, one of buscar_detalhes
    detail,        \* the argument of the last _detail_to_row_5k call
    row_5k,        \* the row that call returned, or that it raised
    tamanho_pagina,\* buscar_detalhes: its argument tamanho_pagina
    max_registros, \* its argument max_registros (None: no limit)
    collected,     \* its list results: the rows collected so far
    offset,        \* its variable offset
    requested,     \* history: the page size of each request, and the rows held then
    pages,         \* history: what each request was answered
    scrape_at      \* where the call stands

vocabVars == <<vocab_cache, pc, call, vocab_map, ret, out, hist, ncalls>>
resolveVars == <<csv_lines, resolved>>
dateVars == <<date_in, date_out>>
buildVars == <<csv_row, record, rdf, rdf_again>>
validateVars == <<file_content, filename, at, rdf_format, data_graph, parse_error, parsed,
                  used_format, formats_to_try, attempts, result, possible_paths, shacl_path,
                  shacl_graph, ont_graph, ont_errors, engine, returned>>
batchVars == <<datasets, idx, results, errors, metadata, batch_at>>
scrapeVars == <<detail, row_5k, tamanho_pagina, max_registros, collected, offset, requested,
                pages, scrape_at>>
vars == <<vocabVars, resolveVars, dateVars, buildVars, validateVars, batchVars, scrapeVars>>

\* What an action of one part leaves alone: the variables of the other parts.
NotVocab == <<resolveVars, dateVars, buildVars, validateVars, batchVars, scrapeVars>>
NotResolve == <<vocabVars, dateVars, buildVars, validateVars, batchVars, scrapeVars>>
NotDate == <<vocabVars, resolveVars, buildVars, validateVars, batchVars, scrapeVars>>
NotBuild == <<vocabVars, resolveVars, dateVars, validateVars, batchVars, scrapeVars>>
NotValidate == <<vocabVars, resolveVars, dateVars, buildVars, batchVars, scrapeVars>>
NotBatch == <<vocabVars, resolveVars, dateVars, buildVars, validateVars, scrapeVars>>
NotScrape == <<vocabVars, resolveVars, dateVars, buildVars, validateVars, batchVars>>

------------------------------------------------------------------------------
(* Bounds of the model *)
MaxCalls == 3
MaxLines == 2
MaxKeys == 2
MaxExtras == 1
MaxRecords == 3
MaxPage == 3
MaxRows == 5

------------------------------------------------------------------------------
(* Text: str.upper, str.lower, str.strip, str.replace, NFD + drop marks *)

\* The letters of the model, as <<capital, small>>; every other atom has no
\* case.  "i^" is i-acute.
Letters == {<<"A", "a">>, <<"B", "b">>, <<"D", "d">>, <<"E", "e">>, <<"I", "i">>,
            <<"L", "l">>, <<"N", "n">>, <<"O", "o">>, <<"P", "p">>, <<"S", "s">>,
            <<"T", "t">>, <<"U", "u">>, <<"V", "v">>, <<"X", "x">>,
            <<"F", "f">>, <<"M", "m">>, <<"R", "r">>, <<"Y", "y">>,
            <<"G", "g">>, <<"W", "w">>,
            <<"U^", "u^">>, <<"I^", "i^">>}

UpperCh(c) ==
    IF \E l \in Letters : l[2] = c THEN (CHOOSE l \in Letters : l[2] = c)[1] ELSE c

LowerCh(c) ==
    IF \E l \in Letters : l[1] = c THEN (CHOOSE l \in Letters : l[1] = c)[2] ELSE c

\* unicodedata.normalize('NFD', .) followed by dropping the characters of
\* category Mn: an accented letter loses its accent.
NoAccentCh(c) ==
    CASE c = "u^" -> "u" [] c = "U^" -> "U" [] c = "i^" -> "i" [] c = "I^" -> "I"
      [] OTHER -> c

Upper(s) == [i \in 1..Len(s) |-> UpperCh(s[i])]
Lower(s) == [i \in 1..Len(s) |-> LowerCh(s[i])]
NoAccents(s) == [i \in 1..Len(s) |-> NoAccentCh(s[i])]
Replace(s, old, new) == [i \in 1..Len(s) |-> IF s[i] = old THEN new ELSE s[i]]

SetMin(S) == CHOOSE x \in S : \A y \in S : x <= y
SetMax(S) == CHOOSE x \in S : \A y \in S : x >= y

\* str.strip(): leading and trailing white space removed
Strip(s) ==
    LET keep == {i \in 1..Len(s) : s[i] # " "}
    IN  IF keep = {} THEN <<>> ELSE SubSeq(s, SetMin(keep), SetMax(keep))

\* str.startswith for a one-atom prefix
StartsWith(s, c) == Len(s) > 0 /\ s[1] = c

\* "pat in s"
Contains(s, pat) ==
    \E i \in 1..(Len(s) - Len(pat) + 1) : SubSeq(s, i, i + Len(pat) - 1) = pat

\* Decimal digits
DigitChars == <<"0", "1", "2", "3", "4", "5", "6", "7", "8", "9">>
IsDigit(c) == \E n \in 1..10 : DigitChars[n] = c
DigitVal(c) == (CHOOSE n \in 1..10 : DigitChars[n] = c) - 1
DigitCh(n) == DigitChars[n + 1]

\* s has n digits from position i on
AllDigits(s, i, n) == i + n - 1 <= Len(s) /\ \A k \in i..(i + n - 1) : IsDigit(s[k])

\* int() of the n digits of s from position i on
RECURSIVE Num(_, _, _)
Num(s, i, n) == IF n = 0 THEN 0 ELSE Num(s, i, n - 1) * 10 + DigitVal(s[i + n - 1])

\* A number written with at least w digits (zero-padded), as %02d and %04d do
RECURSIVE Padded(_, _)
Padded(n, w) ==
    IF w <= 1 /\ n < 10 THEN <<DigitCh(n)>>
    ELSE Append(Padded(n \div 10, w - 1), DigitCh(n % 10))

------------------------------------------------------------------------------
(* Python values: None, a text, a boolean, a number, a dict (a function from
   key names to values), a list (a sequence of values) *)

PyNone == [kind |-> "none"]
PyStr(s) == [kind |-> "str", s |-> s]
PyBool(b) == [kind |-> "bool", b |-> b]
PyNum(n) == [kind |-> "num", n |-> n]
PyDict(d) == [kind |-> "dict", d |-> d]
PyList(l) == [kind |-> "list", l |-> l]

\* bool(v)
Truthy(v) ==
    CASE v.kind = "none" -> FALSE
      [] v.kind = "str" -> v.s # <<>>
      [] v.kind = "bool" -> v.b
      [] v.kind = "num" -> v.n # 0
      [] v.kind = "dict" -> v.d # <<>>
      [] v.kind = "list" -> v.l # <<>>

\* "a or b"
Or(a, b) == IF Truthy(a) THEN a ELSE b

\* d.get(k) and d.get(k, default), for the mapping d of a dict
Get(d, k) == IF k \in DOMAIN d THEN d[k] ELSE PyNone
GetDef(d, k, default) == IF k \in DOMAIN d THEN d[k] ELSE default

\* str(v), as an f-string writes v (numbers of the model are naturals)
StrOf(v) ==
    CASE v.kind = "none" -> <<"None">>
      [] v.kind = "str" -> v.s
      [] v.kind = "bool" -> IF v.b THEN <<"T", "r", "u", "e">> ELSE <<"F", "a", "l", "s", "e">>
      [] v.kind = "num" -> Padded(v.n, 1)
      [] v.kind = "dict" -> <<"{..}">>
      [] v.kind = "list" -> <<"[..]">>

------------------------------------------------------------------------------
(* Tables: a Python dict from text to text *)

EmptyTable == <<>>
Put(m, k, v) == [x \in (DOMAIN m) \cup {k} |-> IF x = k THEN v ELSE m[x]]

------------------------------------------------------------------------------
(* Optional[str]: None, or a text *)

None == [some |-> FALSE, v |-> <<>>]
Some(s) == [some |-> TRUE, v |-> s]

------------------------------------------------------------------------------
(* date_utils.py *)

\* invalid_patterns; "a~" is a-tilde, "a^" a-acute, "i^" i-acute
InvalidPatterns ==
    { <<"i", "n", "d", "i", "s", "p", "o", "n", "i^", "v", "e", "l">>,
      <<"n", "a~", "o", " ", "e", "n", "c", "o", "n", "t", "r", "a", "d", "o">>,
      <<"i", "n", "v", "a^", "l", "i", "d", "o">>,
      <<"n", "u", "l", "l">>,
      <<"n", "o", "n", "e">>,
      <<"n", "/", "a">>,
      <<"n", "a">> }

\* calendar: the days of a month of the proleptic Gregorian calendar
IsLeap(y) == y % 4 = 0 /\ (y % 100 # 0 \/ y % 400 = 0)
DaysInMonth(y, m) ==
    IF m = 2 THEN (IF IsLeap(y) THEN 29 ELSE 28)
    ELSE IF m \in {4, 6, 9, 11} THEN 30 ELSE 31

\* datetime(year, month, day) does not raise ValueError
ValidDate(y, m, d) ==
    /\ 1 <= y /\ y <= 9999
    /\ 1 <= m /\ m <= 12
    /\ 1 <= d /\ d <= DaysInMonth(y, m)

\* hh:mm:ss from position i on, each part two digits of any value
TimeAt(s, i) ==
    /\ i + 7 <= Len(s)
    /\ AllDigits(s, i, 2) /\ s[i + 2] = ":"
    /\ AllDigits(s, i + 3, 2) /\ s[i + 5] = ":"
    /\ AllDigits(s, i + 6, 2)

\* br_date_pattern: ^(\d{2})/(\d{2})/(\d{4})(?:\s+(\d{2}):(\d{2}):(\d{2}))?$
BrMatches(s) ==
    /\ Len(s) >= 10
    /\ AllDigits(s, 1, 2) /\ s[3] = "/"
    /\ AllDigits(s, 4, 2) /\ s[6] = "/"
    /\ AllDigits(s, 7, 4)
    /\ \/ Len(s) = 10
       \/ \E k \in 11..Len(s) :
             /\ \A j \in 11..k : s[j] = " "
             /\ TimeAt(s, k + 1)
             /\ Len(s) = k + 8

\* iso_pattern: ^(\d{4})-(\d{2})-(\d{2})(?:T(\d{2}):(\d{2}):(\d{2}))?
\* It has no $: the match is of a prefix of the text.
IsoMatches(s) ==
    /\ Len(s) >= 10
    /\ AllDigits(s, 1, 4) /\ s[5] = "-"
    /\ AllDigits(s, 6, 2) /\ s[8] = "-"
    /\ AllDigits(s, 9, 2)

\* The formats tried with datetime.strptime, in order.
DateFormats ==
    << <<"%Y", "-", "%m", "-", "%d">>,
       <<"%Y", "-", "%m", "-", "%d", " ", "%H", ":", "%M", ":", "%S">>,
       <<"%Y", "-", "%m", "-", "%d", "T", "%H", ":", "%M", ":", "%S">>,
       <<"%d", "/", "%m", "/", "%Y">>,
       <<"%d", "/", "%m", "/", "%Y", " ", "%H", ":", "%M", ":", "%S">>,
       <<"%d", "-", "%m", "-", "%Y">>,
       <<"%Y", "/", "%m", "/", "%d">> >>

Directives == {"%Y", "%m", "%d", "%H", "%M", "%S"}
NoFields == [x \in Directives |-> CASE x = "%Y" -> 1900 [] x \in {"%m", "%d"} -> 1 [] OTHER -> 0]
NoMatch == [ok |-> FALSE, f |-> NoFields]

\* The values strptime's pattern of a directive takes, written with w digits:
\* %d 3[0-1]|[1-2]\d|0[1-9]|[1-9], %m 1[0-2]|0[1-9]|[1-9], %H 2[0-3]|[0-1]\d|\d,
\* %M [0-5]\d|\d, %S 6[0-1]|[0-5]\d|\d.
FieldTakes(x, v, w) ==
    CASE x = "%d" -> 1 <= v /\ v <= 31 /\ (w = 1 => v <= 9)
      [] x = "%m" -> 1 <= v /\ v <= 12 /\ (w = 1 => v <= 9)
      [] x = "%H" -> v <= 23
      [] x = "%M" -> v <= 59
      [] x = "%S" -> v <= 61

\* The number of white-space characters s has in a row from position i on
RECURSIVE SpaceLen(_, _)
SpaceLen(s, i) == IF i <= Len(s) /\ s[i] = " " THEN 1 + SpaceLen(s, i + 1) ELSE 0

\* The match of strptime's regular expression for fmt, from item fi of the
\* format and position si of the text on; the whole text must be consumed.
RECURSIVE MatchFmt(_, _, _, _, _)
MatchFmt(fmt, fi, s, si, f) ==
    IF fi > Len(fmt) THEN [ok |-> si > Len(s), f |-> f]
    ELSE LET x == fmt[fi] IN
         IF x = "%Y" THEN
             IF AllDigits(s, si, 4)
             THEN MatchFmt(fmt, fi + 1, s, si + 4, [f EXCEPT ![x] = Num(s, si, 4)])
             ELSE NoMatch
         ELSE IF x \in Directives THEN
             LET two == IF AllDigits(s, si, 2) /\ FieldTakes(x, Num(s, si, 2), 2)
                        THEN MatchFmt(fmt, fi + 1, s, si + 2, [f EXCEPT ![x] = Num(s, si, 2)])
                        ELSE NoMatch
                 one == IF AllDigits(s, si, 1) /\ FieldTakes(x, Num(s, si, 1), 1)
                        THEN MatchFmt(fmt, fi + 1, s, si + 1, [f EXCEPT ![x] = Num(s, si, 1)])
                        ELSE NoMatch
             IN  IF two.ok THEN two ELSE one
         ELSE IF x = " " THEN
             IF SpaceLen(s, si) >= 1
             THEN MatchFmt(fmt, fi + 1, s, si + SpaceLen(s, si), f)
             ELSE NoMatch
         ELSE IF si <= Len(s) /\ s[si] = x
             THEN MatchFmt(fmt, fi + 1, s, si + 1, f)
             ELSE NoMatch

\* datetime.strptime(s, fmt) does not raise ValueError
StrptimeOk(s, fmt) ==
    LET r == MatchFmt(fmt, 1, s, 1, NoFields)
    IN  r.ok /\ ValidDate(r.f["%Y"], r.f["%m"], r.f["%d"]) /\ r.f["%S"] <= 59

\* dt.strftime("%Y-%m-%d"); the C library decides whether a year below 1000
\* is zero-padded (padYear) or not.
Strftime(y, m, d, padYear) ==
    Padded(y, IF padYear THEN 4 ELSE 1) \o <<"-">> \o Padded(m, 2) \o <<"-">> \o Padded(d, 2)

\* The loop over DateFormats, from format k on
RECURSIVE TryFormats(_, _, _)
TryFormats(s, k, padYear) ==
    IF k > Len(DateFormats) THEN None
    ELSE IF StrptimeOk(s, DateFormats[k])
         THEN LET f == MatchFmt(DateFormats[k], 1, s, 1, NoFields).f
              IN  Some(Strftime(f["%Y"], f["%m"], f["%d"], padYear))
         ELSE TryFormats(s, k + 1, padYear)

\* normalize_date(date_str)
NormalizeDate(v, padYear) ==
    IF ~Truthy(v) \/ v.kind # "str" THEN None
    ELSE
    LET date_str == Strip(v.s)
        date_lower == Lower(date_str)
    IN  IF \E pattern \in InvalidPatterns : Contains(date_lower, pattern) THEN None
        ELSE IF BrMatches(date_str) THEN
            LET day == SubSeq(date_str, 1, 2)
                month == SubSeq(date_str, 4, 5)
                year == SubSeq(date_str, 7, 10)
            IN  IF ValidDate(Num(year, 1, 4), Num(month, 1, 2), Num(day, 1, 2))
                THEN Some(year \o <<"-">> \o month \o <<"-">> \o day)
                ELSE None
        ELSE IF IsoMatches(date_str) THEN
            LET year == SubSeq(date_str, 1, 4)
                month == SubSeq(date_str, 6, 7)
                day == SubSeq(date_str, 9, 10)
            IN  IF ValidDate(Num(year, 1, 4), Num(month, 1, 2), Num(day, 1, 2))
                THEN Some(year \o <<"-">> \o month \o <<"-">> \o day)
                ELSE None
        ELSE TryFormats(date_str, 1, padYear)

------------------------------------------------------------------------------
(* vocabularies.py *)

\* The categories _get_vocab_path and the urls table of load_vocab know.
KnownVocabs == {"freq", "sei", "formato", "tipo-recurso", "themes", "vcr-ce", "vcr-lu"}

\* The fixed base location of synthesized theme identifiers.
ThemeBase == <<"https://dcat-br.github.io/dcat-br/docs/vocabularies/themes/">>

\* (a variant of ParseLine that registers the label as written only)
ParseLineAsWritten(m, parts) ==
    IF Len(parts) = 0 \/ StartsWith(Strip(parts[1]), "#") THEN m
    ELSE IF Len(parts) >= 2 THEN Put(m, Strip(parts[2]), Strip(parts[1]))
    ELSE m

\* One content line of a table, handled as _parse_csv's loop body handles it.
\* A line is given by the fields csv.reader splits it into (parts); a blank
\* line has none.
ParseLine(m, parts) ==
    IF Len(parts) = 0 \/ StartsWith(Strip(parts[1]), "#") THEN m
    ELSE IF Len(parts) >= 2 THEN
        LET uri == Strip(parts[1])
            notation_or_label == Strip(parts[2])
            m1 == Put(m, Upper(notation_or_label), uri)
            m2 == Put(m1, notation_or_label, uri)
            normalized == Replace(Replace(Lower(notation_or_label), " ", "-"), "_", "-")
        IN  IF normalized # Lower(notation_or_label)
            THEN Put(Put(m2, normalized, uri), Upper(normalized), uri)
            ELSE m2
    ELSE m

RECURSIVE ParseFrom(_, _, _)
ParseFrom(m, lines, i) ==
    IF i > Len(lines) THEN m ELSE ParseFrom(ParseLine(m, lines[i]), lines, i + 1)

\* _parse_csv(content)
ParseCsv(lines) == ParseFrom(EmptyTable, lines, 1)

\* (a variant of ConvertToIri that tries the value as written before its
\* upper-cased form)
ConvertToIriVerbatimFirst(value, vocab_name, vocab) ==
    IF value = <<>> THEN None
    ELSE
    LET value_upper == Upper(Strip(value))
        value_stripped == Strip(value)
        normalized == Replace(Replace(Lower(value_stripped), "_", "-"), " ", "-")
        normalized_underscore == Replace(Replace(Lower(value_stripped), "-", "_"), " ", "_")
        name_no_accents == NoAccents(Lower(value_stripped))
        name_normalized == Replace(Replace(name_no_accents, " ", "-"), "_", "-")
    IN  IF value_stripped \in DOMAIN vocab THEN Some(vocab[value_stripped])
        ELSE IF value_upper \in DOMAIN vocab THEN Some(vocab[value_upper])
        ELSE IF vocab_name = "vcr-lu" /\ normalized \in DOMAIN vocab
            THEN Some(vocab[normalized])
        ELSE IF vocab_name = "vcr-lu" /\ normalized_underscore \in DOMAIN vocab
            THEN Some(vocab[normalized_underscore])
        ELSE IF vocab_name = "themes" /\ vocab # EmptyTable
            THEN IF name_normalized \in DOMAIN vocab
                 THEN Some(vocab[name_normalized])
                 ELSE Some(ThemeBase \o name_normalized)
        ELSE None

\* convert_to_iri after its call of load_vocab: value looked up in vocab
ConvertToIri(value, vocab_name, vocab) ==
    IF value = <<>> THEN None
    ELSE
    LET value_upper == Upper(Strip(value))
        value_stripped == Strip(value)
        normalized == Replace(Replace(Lower(value_stripped), "_", "-"), " ", "-")
        normalized_underscore == Replace(Replace(Lower(value_stripped), "-", "_"), " ", "_")
        name_no_accents == NoAccents(Lower(value_stripped))
        name_normalized == Replace(Replace(name_no_accents, " ", "-"), "_", "-")
    IN  IF value_upper \in DOMAIN vocab THEN Some(vocab[value_upper])
        ELSE IF value_stripped \in DOMAIN vocab THEN Some(vocab[value_stripped])
        ELSE IF vocab_name = "vcr-lu" /\ normalized \in DOMAIN vocab
            THEN Some(vocab[normalized])
        ELSE IF vocab_name = "vcr-lu" /\ normalized_underscore \in DOMAIN vocab
            THEN Some(vocab[normalized_underscore])
        ELSE IF vocab_name = "themes" /\ vocab # EmptyTable
            THEN IF name_normalized \in DOMAIN vocab
                 THEN Some(vocab[name_normalized])
                 ELSE Some(ThemeBase \o name_normalized)
        ELSE None

------------------------------------------------------------------------------
(* api_to_rdf.py: the graph as a set of triples <<subject, predicate, object>> *)

\* URIRef(s), BNode() (named after the variable it is bound to) and
\* Literal(v, lang=..., datatype=...) of a Python value v
Iri(s) == [t |-> "iri", v |-> s]
BNode(id) == [t |-> "bnode", id |-> id]
Lit(v, lang, datatype) == [t |-> "lit", v |-> v, lang |-> lang, datatype |-> datatype]
Plain(v) == Lit(v, "", "")

\* The outcome of a part of the build: the triples it adds, or an exception
\* (which leaves api_to_rdf before it returns anything).
Ok(T) == [raised |-> FALSE, triples |-> T]
Raised == [raised |-> TRUE, triples |-> {}]
\* The outcome of an expression: its value, or an exception.
Val(v) == [raised |-> FALSE, v |-> v]
RaisedVal == [raised |-> TRUE, v |-> PyNone]

\* "for x in v": the elements of a list, the characters of a text, the keys
\* of a dict; any other value is not iterable (TypeError).
Iterable(v) == v.kind \in {"list", "str", "dict"}

\* (a variant of Elements in which an empty list has one element, an empty
\* object)
ElementsWithPlaceholder(v) ==
    CASE v.kind = "list" -> IF v.l = <<>> THEN << PyDict(<<>>) >> ELSE v.l
      [] v.kind = "str" -> [i \in 1..Len(v.s) |-> PyStr(<<v.s[i]>>)]
      [] v.kind = "dict" ->
            LET n == Cardinality(DOMAIN v.d)
                order == CHOOSE q \in [1..n -> DOMAIN v.d] : {q[i] : i \in 1..n} = DOMAIN v.d
            IN  [i \in 1..n |-> PyStr(<<order[i]>>)]

Elements(v) ==
    CASE v.kind = "list" -> v.l
      [] v.kind = "str" -> [i \in 1..Len(v.s) |-> PyStr(<<v.s[i]>>)]
      [] v.kind = "dict" ->
            LET n == Cardinality(DOMAIN v.d)
                order == CHOOSE q \in [1..n -> DOMAIN v.d] : {q[i] : i \in 1..n} = DOMAIN v.d
            IN  [i \in 1..n |-> PyStr(<<order[i]>>)]

\* x.get(k) of a value x: of a dict its entry or None, of anything else an
\* AttributeError.
GetOf(x, k) == IF x.kind = "dict" THEN Val(Get(x.d, k)) ELSE RaisedVal

\* the loop of _get_extra_value over extras, from its i-th element on
RECURSIVE ScanExtras(_, _, _)
ScanExtras(items, key, i) ==
    IF i > Len(items) THEN Val(PyNone)
    ELSE IF items[i].kind # "dict" THEN RaisedVal
    ELSE IF Get(items[i].d, "key") = PyStr(<<key>>) THEN Val(Get(items[i].d, "value"))
    ELSE ScanExtras(items, key, i + 1)

\* _get_extra_value(data, key)
GetExtraValue(data, key) ==
    LET extras == GetDef(data, "extras", PyList(<<>>))
    IN  IF key \in DOMAIN data THEN Val(data[key])
        ELSE IF ~Truthy(extras) THEN Val(PyNone)
        ELSE IF ~Iterable(extras) THEN RaisedVal
        ELSE ScanExtras(Elements(extras), key, 1)

\* data.get(key) or self._get_extra_value(data, key)
OrExtra(data, key) ==
    IF Truthy(Get(data, key)) THEN Val(Get(data, key)) ELSE GetExtraValue(data, key)

\* What the build finds around it: for each category the table load_vocab
\* returns (the parsed source, or the empty table when both sources fail) and
\* whether the platform's strftime pads the year.
EnvOf(avail, padYear) ==
    [tables |-> [c \in KnownVocabs |-> IF c \in avail THEN ParseCsv(<< << <<"iri:", c>>, <<"A", "B">> >> >>)
                                        ELSE EmptyTable],
     padYear |-> padYear]

\* convert_to_iri(value, vocab_name) of a Python value: value.strip() is an
\* AttributeError for a value that is not empty and not a text.
ToIri(value, vocab_name, env) ==
    IF ~Truthy(value) THEN [raised |-> FALSE, iri |-> None]
    ELSE IF value.kind # "str" THEN [raised |-> TRUE, iri |-> None]
    ELSE [raised |-> FALSE, iri |-> ConvertToIri(value.s, vocab_name, env.tables[vocab_name])]

\* The triples of a vocabulary-bound value, none for an empty value: with an
\* identifier, the property triples, the identifier's types and its scheme; without one, the raw value
\* as a literal where the code has that fallback.
BoundValue(subject, predicates, value, vocab_name, types, scheme, fallback, env) ==
    LET r == ToIri(value, vocab_name, env)
        node == Iri(r.iri.v)
    IN  IF ~Truthy(value) THEN Ok({})
        ELSE IF r.raised THEN Raised
        ELSE IF r.iri.some
        THEN Ok({<<subject, p, node>> : p \in predicates}
                \cup {<<node, "rdf:type", Iri(<<ty>>)>> : ty \in types}
                \cup {<<node, "skos:inScheme", Iri(<<scheme>>)>>})
        ELSE IF fallback THEN Ok({<<subject, p, Plain(value)>> : p \in predicates})
        ELSE Ok({})

\* A date property: normalize_date(value), then a literal typed xsd:date
DateValue(subject, predicate, value, env) ==
    LET normalized_date == NormalizeDate(value, env.padYear)
    IN  IF Truthy(value) /\ normalized_date.some
        THEN {<<subject, predicate, Lit(PyStr(normalized_date.v), "", "xsd:date")>>}
        ELSE {}

\* A boolean-like flag (dadosRacaEtnia, dadosGenero)
FlagValue(subject, predicate, data, key) ==
    LET top == Get(data, key)
        r == IF top = PyNone THEN GetExtraValue(data, key) ELSE Val(top)
        dados == r.v
        is_true == IF dados.kind = "bool" THEN dados.b
                   ELSE Lower(StrOf(dados)) = <<"t", "r", "u", "e">>
    IN  IF r.raised THEN Raised
        ELSE IF dados # PyNone
        THEN Ok({<<subject, predicate, Lit(PyBool(is_true), "", "xsd:boolean")>>})
        ELSE Ok({})

\* s.startswith(p)
HasPrefix(s, p) == Len(s) >= Len(p) /\ SubSeq(s, 1, Len(p)) = p

\* The configured base location, os.getenv('DADOS_GOV_BR_API_URL')
BaseUrl == <<"base:">>

\* resource.get(own keys...) or resource.get("recursoApiView", {}).get(key)
\* or resource.get("recursoForm", {}).get(key): own is the value of the
\* resource's own keys, key the name inside the two containers.
ResourceField(resource, own, key) ==
    LET view == GetDef(resource, "recursoApiView", PyDict(<<>>))
        form == GetDef(resource, "recursoForm", PyDict(<<>>))
    IN  IF Truthy(own) THEN Val(own)
        ELSE IF view.kind # "dict" THEN RaisedVal
        ELSE IF Truthy(Get(view.d, key)) THEN Val(Get(view.d, key))
        ELSE GetOf(form, key)

\* float(v) of a text: the texts of the model that float() accepts are the
\* whole numbers, with blanks around them and a minus sign before them.
IsNumberText(s) ==
    LET t == Strip(s)
        digits == IF t # <<>> /\ t[1] = "-" THEN Tail(t) ELSE t
    IN  digits # <<>> /\ AllDigits(digits, 1, Len(digits))
FloatIsPositive(s) ==
    LET t == Strip(s) IN t[1] # "-" /\ Num(t, 1, Len(t)) > 0

\* (a variant of ByteSize that emits as a literal every text that is not a
\* number above zero, the text "0" excepted)
ByteSizeLiteralUnlessZero(subject, resource_size) ==
    IF ~Truthy(resource_size) THEN {}
    ELSE IF resource_size.kind = "str" /\ IsNumberText(resource_size.s)
            /\ FloatIsPositive(resource_size.s)
    THEN {<<subject, "dcat:byteSize",
            Lit(PyNum(Num(Strip(resource_size.s), 1, Len(Strip(resource_size.s)))), "", "xsd:decimal")>>}
    ELSE IF StrOf(resource_size) # <<"0">>
    THEN {<<subject, "dcat:byteSize", Plain(resource_size)>>}
    ELSE {}

\* lines 322-333: the byte size of a resource
ByteSize(subject, resource_size) ==
    IF resource_size = PyNone THEN {}
    ELSE IF resource_size.kind = "num"
    THEN IF resource_size.n > 0
         THEN {<<subject, "dcat:byteSize", Lit(resource_size, "", "xsd:decimal")>>} ELSE {}
    ELSE IF resource_size.kind = "bool"
    THEN IF resource_size.b
         THEN {<<subject, "dcat:byteSize", Lit(PyNum(1), "", "xsd:decimal")>>} ELSE {}
    ELSE IF resource_size.kind = "str" /\ IsNumberText(resource_size.s)
    THEN IF FloatIsPositive(resource_size.s)
         THEN {<<subject, "dcat:byteSize",
                 Lit(PyNum(Num(Strip(resource_size.s), 1, Len(Strip(resource_size.s)))), "", "xsd:decimal")>>}
         ELSE {}
    ELSE IF Truthy(resource_size) /\ Strip(StrOf(resource_size)) # <<"0">>
    THEN {<<subject, "dcat:byteSize", Plain(resource_size)>>}
    ELSE {}

\* lines 246-333: the body of the loop over the resources, for one resource
ResourceTriples(dataset_uri, base_uri, resource, env) ==
    IF resource.kind # "dict" THEN Raised
    ELSE
    LET r == resource.d
        resource_id == GetDef(r, "id", PyStr(<<"unknown">>))
        distribution_uri == Iri(base_uri \o <<"/resource/">> \o StrOf(resource_id))
        resource_title == ResourceField(r, Or(Get(r, "name"), Get(r, "titulo")), "titulo")
        resource_description ==
            ResourceField(r, Or(Get(r, "description"), Get(r, "descricao")), "descricao")
        resource_format == ResourceField(r, Or(Get(r, "format"), Get(r, "formato")), "formato")
        resource_url == ResourceField(r, Or(Get(r, "url"), Get(r, "link")), "link")
        resource_created ==
            ResourceField(r, Or(Get(r, "created"), Get(r, "dataCatalogacao")), "dataCatalogacao")
        resource_type == ResourceField(r, Get(r, "tipo"), "tipo")
        resource_modified ==
            ResourceField(r, Or(Get(r, "last_modified"), Get(r, "dataUltimaAtualizacaoArquivo")),
                          "dataUltimaAtualizacaoArquivo")
        resource_size == ResourceField(r, Or(Get(r, "size"), Get(r, "tamanho")), "tamanho")
        format == BoundValue(distribution_uri, {"dct:format", "dcat:mediaType"}, resource_format.v,
                             "formato", {"dct:MediaType", "dct:MediaTypeOrExtent", "skos:Concept"},
                             "https://dcat-br.github.io/dcat-br/docs/vocabularies/formato/esquema",
                             TRUE, env)
        type == BoundValue(distribution_uri, {"dct:type"}, resource_type.v, "tipo-recurso",
                           {"skos:Concept"},
                           "https://dcat-br.github.io/dcat-br/docs/vocabularies/tipo-recurso/",
                           TRUE, env)
        \* resource_modified.startswith(...) of a value that is not a text
        modifiedRaises == Truthy(resource_modified.v) /\ resource_modified.v.kind # "str"
        \* (the source spells the marker with the two characters a mis-decoded
        \* i-acute gives: A-tilde and a soft hyphen)
        unavailable == /\ resource_modified.v.kind = "str"
                       /\ HasPrefix(resource_modified.v.s,
                                    <<"I", "n", "d", "i", "s", "p", "o", "n", "A~", "shy", "v", "e", "l">>)
    IN  IF \/ resource_title.raised \/ resource_description.raised \/ resource_format.raised
           \/ resource_url.raised \/ resource_created.raised \/ resource_type.raised
           \/ resource_modified.raised \/ resource_size.raised
           \/ format.raised \/ type.raised \/ modifiedRaises
        THEN Raised
        ELSE Ok(
            {<<dataset_uri, "dcat:distribution", distribution_uri>>,
             <<distribution_uri, "rdf:type", Iri(<<"dcat:Distribution">>)>>}
            \cup (IF Truthy(resource_title.v)
                  THEN {<<distribution_uri, "dct:title", Lit(resource_title.v, "pt-BR", "")>>} ELSE {})
            \cup (IF Truthy(resource_description.v)
                  THEN {<<distribution_uri, "dct:description",
                          Lit(resource_description.v, "pt-BR", "")>>} ELSE {})
            \cup format.triples
            \cup (IF Truthy(resource_url.v)
                  THEN {<<distribution_uri, "dcat:accessURL", Iri(StrOf(resource_url.v))>>,
                        <<distribution_uri, "dcat:downloadURL", Iri(StrOf(resource_url.v))>>}
                  ELSE {})
            \cup DateValue(distribution_uri, "dct:issued", resource_created.v, env)
            \cup type.triples
            \cup (IF Truthy(resource_modified.v) /\ ~unavailable
                  THEN DateValue(distribution_uri, "dct:modified", resource_modified.v, env)
                  ELSE {})
            \cup ByteSize(distribution_uri, resource_size.v))

\* lines 162-178: the creator's name, from "organizacao" (a text or an
\* object) or else from "organization" (an object)
OrgName(data) ==
    LET organizacao == Get(data, "organizacao")
        organization == IF Truthy(organizacao) THEN organizacao
                        ELSE GetDef(data, "organization", PyDict(<<>>))
    IN  IF Truthy(organizacao) /\ organizacao.kind = "str" THEN Val(organizacao)
        ELSE IF organization.kind # "dict" THEN RaisedVal
        ELSE Val(Or(Get(organization.d, "title"),
                    Or(Get(organization.d, "display_name"), Get(organization.d, "name"))))

\* lines 213-216: the keyword of one tag
TagTriples(dataset_uri, tag) ==
    IF tag.kind # "dict" THEN Raised
    ELSE IF Truthy(Get(tag.d, "name"))
    THEN Ok({<<dataset_uri, "dcat:keyword", Plain(tag.d["name"])>>})
    ELSE Ok({})

\* lines 233-243: the theme of one entry of temas / groups
ThemeTriples(dataset_uri, tema, env) ==
    IF tema.kind # "dict" THEN Raised
    ELSE BoundValue(dataset_uri, {"dcat:theme"}, Or(Get(tema.d, "name"), Get(tema.d, "title")),
                    "themes", {"skos:Concept"},
                    "https://dcat-br.github.io/dcat-br/docs/vocabularies/themes/", FALSE, env)

\* A loop "for x in v: body": an exception when v is not iterable or a body
\* raises, else the triples of all bodies.  body[i] is the outcome of the
\* body for the i-th element.
Loop(v, body) ==
    IF ~Iterable(v) \/ \E i \in DOMAIN body : body[i].raised THEN Raised
    ELSE Ok(UNION {body[i].triples : i \in DOMAIN body})

\* api_to_rdf(data), the graph it builds before serializing it
ApiToRdf(data, env) ==
    LET dataset_name == GetDef(data, "nome", GetDef(data, "name", Get(data, "id")))
        base_uri == BaseUrl \o <<"/">> \o StrOf(dataset_name)
        dataset_uri == Iri(base_uri)
        titulo == Or(Get(data, "titulo"), Get(data, "title"))
        descricao == Or(Get(data, "descricao"), Get(data, "notes"))
        periodicidade == OrExtra(data, "periodicidade")
        frequency == BoundValue(dataset_uri, {"dct:accrualPeriodicity"}, periodicidade.v, "freq",
                                {"dct:Frequency", "skos:Concept"},
                                "https://dcat-br.github.io/dcat-br/docs/vocabularies/VCR-FR",
                                TRUE, env)
        cobertura_espacial == OrExtra(data, "coberturaEspacial")
        observancia_legal == OrExtra(data, "observanciaLegal")
        rights == BoundValue(dataset_uri, {"dct:accessRights"}, observancia_legal.v, "sei",
                             {"dct:RightsStatement", "skos:Concept"},
                             "https://dcat-br.github.io/dcat-br/docs/vocabularies/SEI/esquema",
                             FALSE, env)
        data_catalogacao == Or(Get(data, "dataCatalogacao"), Get(data, "metadata_created"))
        metadata_modified ==
            Or(Get(data, "dataUltimaAtualizacaoMetadados"), Get(data, "metadata_modified"))
        license_id == Or(Get(data, "licenca"), Get(data, "license_id"))
        isAddress == \/ HasPrefix(license_id.s, <<"h", "t", "t", "p", ":", "/", "/">>)
                     \/ HasPrefix(license_id.s, <<"h", "t", "t", "p", "s", ":", "/", "/">>)
        licenca_iri == ToIri(license_id, "vcr-lu", env)
        license ==
            IF ~Truthy(license_id) THEN Ok({})
            ELSE IF license_id.kind # "str" THEN Raised
            ELSE IF isAddress THEN Ok({<<dataset_uri, "dct:license", Iri(license_id.s)>>})
            ELSE IF licenca_iri.iri.some
            THEN Ok({<<dataset_uri, "dct:license", Iri(licenca_iri.iri.v)>>})
            ELSE Ok({})
        maintainer_email == Or(Get(data, "emailResponsavel"), Get(data, "maintainer_email"))
        mailto == Iri(<<"mailto:">> \o StrOf(maintainer_email))
        contact_node == BNode("contact_node")
        maintainer == Or(Get(data, "responsavel"), Get(data, "maintainer"))
        publisher_node == BNode("publisher_node")
        org_name == OrgName(data)
        creator_node == BNode("creator_node")
        versao == Or(Get(data, "versao"), Get(data, "version"))
        dados_raca_etnia == FlagValue(dataset_uri, "dcatbr:dadosRacaEtnia", data, "dadosRacaEtnia")
        dados_genero == FlagValue(dataset_uri, "dcatbr:dadosGenero", data, "dadosGenero")
        granularidade_espacial == OrExtra(data, "granularidadeEspacial")
        tagList == GetDef(data, "tags", PyList(<<>>))
        tags == Loop(tagList, IF Iterable(tagList)
                              THEN [i \in DOMAIN Elements(tagList) |->
                                       TagTriples(dataset_uri, Elements(tagList)[i])]
                              ELSE <<>>)
        cobertura_temporal_inicio == OrExtra(data, "coberturaTemporalInicio")
        cobertura_temporal_fim == OrExtra(data, "coberturaTemporalFim")
        temas == Or(GetDef(data, "temas", PyList(<<>>)), GetDef(data, "groups", PyList(<<>>)))
        themes == Loop(temas, IF Iterable(temas)
                              THEN [i \in DOMAIN Elements(temas) |->
                                       ThemeTriples(dataset_uri, Elements(temas)[i], env)]
                              ELSE <<>>)
        recursos == Or(GetDef(data, "recursos", PyList(<<>>)), GetDef(data, "resources", PyList(<<>>)))
        distributions ==
            Loop(recursos, IF Iterable(recursos)
                           THEN [i \in DOMAIN Elements(recursos) |->
                                    ResourceTriples(dataset_uri, base_uri, Elements(recursos)[i], env)]
                           ELSE <<>>)
    IN  IF \/ periodicidade.raised \/ frequency.raised \/ cobertura_espacial.raised
           \/ observancia_legal.raised \/ rights.raised \/ license.raised \/ org_name.raised
           \/ dados_raca_etnia.raised \/ dados_genero.raised \/ granularidade_espacial.raised
           \/ tags.raised \/ cobertura_temporal_inicio.raised \/ cobertura_temporal_fim.raised
           \/ themes.raised \/ distributions.raised
        THEN Raised
        ELSE Ok(
            {<<dataset_uri, "rdf:type", Iri(<<"dcat:Dataset">>)>>}
            \cup (IF Truthy(Get(data, "id"))
                  THEN {<<dataset_uri, "dct:identifier", Plain(data["id"])>>} ELSE {})
            \cup (IF Truthy(titulo) THEN {<<dataset_uri, "dct:title", Lit(titulo, "pt-BR", "")>>} ELSE {})
            \cup (IF Truthy(descricao)
                  THEN {<<dataset_uri, "dct:description", Lit(descricao, "pt-BR", "")>>} ELSE {})
            \cup frequency.triples
            \cup (IF Truthy(cobertura_espacial.v) /\ cobertura_espacial.v # PyStr(<<"-">>)
                  THEN {<<dataset_uri, "dct:spatial", Plain(cobertura_espacial.v)>>} ELSE {})
            \cup rights.triples
            \cup DateValue(dataset_uri, "dct:issued", data_catalogacao, env)
            \cup DateValue(dataset_uri, "dct:modified", metadata_modified, env)
            \cup license.triples
            \cup (IF Truthy(maintainer_email)
                  THEN {<<dataset_uri, "dcat:contactPoint", contact_node>>,
                        <<contact_node, "rdf:type", Iri(<<"vcard:Kind">>)>>,
                        <<contact_node, "vcard:hasEmail", mailto>>}
                  ELSE {})
            \cup (IF Truthy(maintainer)
                  THEN {<<dataset_uri, "dct:publisher", publisher_node>>,
                        <<publisher_node, "rdf:type", Iri(<<"foaf:Agent">>)>>,
                        <<publisher_node, "rdf:type", Iri(<<"foaf:Organization">>)>>,
                        <<publisher_node, "foaf:name", Plain(maintainer)>>}
                       \cup (IF Truthy(maintainer_email)
                             THEN {<<publisher_node, "foaf:mbox", mailto>>} ELSE {})
                  ELSE {})
            \cup (IF Truthy(org_name.v)
                  THEN {<<dataset_uri, "dct:creator", creator_node>>,
                        <<creator_node, "rdf:type", Iri(<<"foaf:Agent">>)>>,
                        <<creator_node, "rdf:type", Iri(<<"foaf:Organization">>)>>,
                        <<creator_node, "foaf:name", Plain(org_name.v)>>}
                  ELSE {})
            \cup (IF Truthy(versao) THEN {<<dataset_uri, "dcat:version", Plain(versao)>>} ELSE {})
            \cup dados_raca_etnia.triples
            \cup dados_genero.triples
            \cup (IF Truthy(granularidade_espacial.v)
                  THEN {<<dataset_uri, "dcat:spatialResolutionInMeters",
                          Plain(granularidade_espacial.v)>>} ELSE {})
            \cup tags.triples
            \cup DateValue(dataset_uri, "dcat:startDate", cobertura_temporal_inicio.v, env)
            \cup DateValue(dataset_uri, "dcat:endDate", cobertura_temporal_fim.v, env)
            \cup themes.triples
            \cup distributions.triples)

------------------------------------------------------------------------------
(* csv_to_rdf.py: a row of the CSV file made into the record api_to_rdf reads *)

\* The columns csv_row_to_dict copies as they are
BasicColumns ==
    {"id", "titulo", "nome", "organizacao", "descricao", "licenca", "responsavel",
     "emailResponsavel", "periodicidade", "versao", "coberturaEspacial",
     "granularidadeEspacial", "coberturaTemporalInicio", "coberturaTemporalFim",
     "dataCatalogacao", "dataUltimaAtualizacaoMetadados", "observanciaLegal"}
FlagColumns == {"dadosRacaEtnia", "dadosGenero"}
JsonColumns == {"temas", "tags", "recursos"}

\* The words a flag column is true for
TrueWords == {<<"t", "r", "u", "e">>, <<"s", "i", "m">>, <<"1">>, <<"y", "e", "s">>}

\* The JSON documents of the model, each kept whole, and what json.loads makes
\* of them; any other text is no JSON document (JSONDecodeError).
JsonDocs ==
    { [text |-> <<"[]">>, value |-> PyList(<<>>)],
      [text |-> <<"null">>, value |-> PyNone],
      [text |-> <<"[{\"name\": \"ab\"}]">>,
       value |-> PyList(<< PyDict([name |-> PyStr(<<"a", "b">>)]) >>)],
      [text |-> <<"[\"ab\"]">>, value |-> PyList(<< PyStr(<<"a", "b">>) >>)],
      [text |-> <<"[{\"id\": \"r1\", \"titulo\": \"t\"}]">>,
       value |-> PyList(<< PyDict([id |-> PyStr(<<"r1">>), titulo |-> PyStr(<<"t">>)]) >>)] }

\* lines 55-62 (and 65-72, 75-82): the value of a JSON column
JsonColumn(text) ==
    IF ~Truthy(text) THEN PyList(<<>>)
    ELSE IF \E doc \in JsonDocs : doc.text = text.s
    THEN (CHOOSE doc \in JsonDocs : doc.text = text.s).value
    ELSE PyList(<<>>)

\* csv_row_to_dict(row)
CsvRowToDict(row) ==
    LET flags == {k \in FlagColumns : Truthy(GetDef(row, k, PyStr(<<>>)))}
    IN  [k \in BasicColumns \cup flags \cup JsonColumns |->
            IF k \in BasicColumns THEN GetDef(row, k, PyStr(<<>>))
            ELSE IF k \in flags THEN PyBool(Lower(row[k].s) \in TrueWords)
            ELSE JsonColumn(GetDef(row, k, PyStr(<<>>)))]

------------------------------------------------------------------------------
(* The process: threads calling load_vocab and convert_to_iri *)

Threads == {"t1", "t2"}

\* The categories and values the threads call with; "nope" is a category
\* that neither _get_vocab_path nor the urls table knows.
CallVocabs == {"freq", "themes", "nope"}
CallValues == {<<>>, <<"a", "b">>}

\* What the two sources of a category hold when they can be read: the local
\* checkout and the published copy are separate files.
LocalCsv(c) == << << <<"local:", c>>, <<"A", "B">> >> >>
RemoteCsv(c) == << << <<"remote:", c>>, <<"A", "B">> >> >>

\* What the environment can answer to open(local_path) and to urlopen(url).
LocalOutcomes == {"missing", "error", "empty", "ok"}
RemoteOutcomes == {"error", "timeout", "empty", "ok"}

NoCall == [fn |-> "none", vocab_name |-> "none", force_reload |-> FALSE, value |-> <<>>]
NoRet == [table |-> EmptyTable, iri |-> None]
NoOut == [path |-> "none", local |-> "none", remote |-> "none", loadedBefore |-> FALSE]
\* History: the categories whose load has run to its end, those called with
\* force_reload, those whose cache entry a forced reload wrote, and the table
\* each cached category was first cached with.
NoHist == [loaded |-> {}, forced |-> {}, forcedStore |-> {}, first |-> EmptyTable]

VocabInit ==
    /\ vocab_cache = EmptyTable
    /\ pc = [t \in Threads |-> "idle"]
    /\ call = [t \in Threads |-> NoCall]
    /\ vocab_map = [t \in Threads |-> EmptyTable]
    /\ ret = [t \in Threads |-> NoRet]
    /\ out = [t \in Threads |-> NoOut]
    /\ hist = NoHist
    /\ ncalls = 0

\* A thread enters load_vocab(vocab_name, force_reload) or
\* convert_to_iri(value, vocab_name).
Call(t, fn, c, force, value) ==
    /\ pc[t] = "idle"
    /\ ncalls < MaxCalls
    /\ fn = "load_vocab" => value = <<>>
    /\ fn = "convert_to_iri" => ~force
    /\ pc' = [pc EXCEPT ![t] = "check"]
    /\ call' = [call EXCEPT ![t] =
                  [fn |-> fn, vocab_name |-> c, force_reload |-> force, value |-> value]]
    /\ ncalls' = ncalls + 1
    /\ hist' = [hist EXCEPT !.forced = IF force THEN @ \cup {c} ELSE @]
    /\ UNCHANGED <<vocab_cache, vocab_map, ret, out, NotVocab>>

\* What the caller ends with, given the table load_vocab returned.
Returned(t, table) ==
    [table |-> table,
     iri |-> IF call[t].fn = "convert_to_iri"
             THEN ConvertToIri(call[t].value, call[t].vocab_name, table)
             ELSE None]

\* convert_to_iri's test of value, then load_vocab's test of the cache.
Check(t) ==
    /\ pc[t] = "check"
    /\ LET c == call[t].vocab_name IN
       IF call[t].fn = "convert_to_iri" /\ call[t].value = <<>>
       THEN /\ pc' = [pc EXCEPT ![t] = "done"]
            /\ ret' = [ret EXCEPT ![t] = NoRet]
            /\ out' = [out EXCEPT ![t].path = "early"]
            /\ UNCHANGED vocab_map
       ELSE IF ~call[t].force_reload /\ c \in DOMAIN vocab_cache
       THEN /\ pc' = [pc EXCEPT ![t] = "done"]
            /\ ret' = [ret EXCEPT ![t] = Returned(t, vocab_cache[c])]
            /\ out' = [out EXCEPT ![t].path = "hit"]
            /\ UNCHANGED vocab_map
       ELSE /\ pc' = [pc EXCEPT ![t] = "local"]
            /\ vocab_map' = [vocab_map EXCEPT ![t] = EmptyTable]
            /\ out' = [out EXCEPT ![t].path = "load",
                                  ![t].loadedBefore = (c \in hist.loaded)]
            /\ UNCHANGED ret
    /\ UNCHANGED <<vocab_cache, call, hist, ncalls, NotVocab>>

\* The local read: the file may be absent, the read may raise (caught), the
\* file may hold no entry, or it is parsed.
LocalRead(t, outcomes) ==
    /\ pc[t] = "local"
    /\ LET c == call[t].vocab_name IN
       IF c \in KnownVocabs
       THEN \E o \in outcomes :
              /\ vocab_map' = [vocab_map EXCEPT ![t] =
                     CASE o = "ok" -> ParseCsv(LocalCsv(c))
                       [] o = "empty" -> ParseCsv(<<>>)
                       [] OTHER -> EmptyTable]
              /\ out' = [out EXCEPT ![t].local = o]
       ELSE /\ out' = [out EXCEPT ![t].local = "nopath"]
            /\ UNCHANGED vocab_map
    /\ pc' = [pc EXCEPT ![t] = "remote"]
    /\ UNCHANGED <<vocab_cache, call, ret, hist, ncalls, NotVocab>>

\* (a variant of RemoteFetch that fetches whatever the local read gave)
RemoteFetchAlways(t, outcomes) ==
    /\ pc[t] = "remote"
    /\ LET c == call[t].vocab_name IN
       IF c \in KnownVocabs
       THEN \E o \in outcomes :
              /\ vocab_map' = [vocab_map EXCEPT ![t] =
                     CASE o = "ok" -> ParseCsv(RemoteCsv(c))
                       [] o = "empty" -> ParseCsv(<<>>)
                       [] OTHER -> EmptyTable]
              /\ out' = [out EXCEPT ![t].remote = o]
       ELSE /\ out' = [out EXCEPT ![t].remote = "nourl"]
            /\ UNCHANGED vocab_map
    /\ pc' = [pc EXCEPT ![t] = "store"]
    /\ UNCHANGED <<vocab_cache, call, ret, hist, ncalls, NotVocab>>

\* The remote fetch (_load_vocab_from_url), made when vocab_map is empty.
RemoteFetch(t, outcomes) ==
    /\ pc[t] = "remote"
    /\ LET c == call[t].vocab_name IN
       IF vocab_map[t] # EmptyTable
       THEN /\ out' = [out EXCEPT ![t].remote = "notneeded"]
            /\ UNCHANGED vocab_map
       ELSE IF c \in KnownVocabs
       THEN \E o \in outcomes :
              /\ vocab_map' = [vocab_map EXCEPT ![t] =
                     CASE o = "ok" -> ParseCsv(RemoteCsv(c))
                       [] o = "empty" -> ParseCsv(<<>>)
                       [] OTHER -> EmptyTable]
              /\ out' = [out EXCEPT ![t].remote = o]
       ELSE /\ out' = [out EXCEPT ![t].remote = "nourl"]
            /\ UNCHANGED vocab_map
    /\ pc' = [pc EXCEPT ![t] = "store"]
    /\ UNCHANGED <<vocab_cache, call, ret, hist, ncalls, NotVocab>>

\* (a variant of Store that caches the table even when it is empty)
StoreAlways(t) ==
    /\ pc[t] = "store"
    /\ LET c == call[t].vocab_name IN
           /\ vocab_cache' = Put(vocab_cache, c, vocab_map[t])
           /\ hist' = [hist EXCEPT
                !.loaded = @ \cup {c},
                !.first = IF c \in DOMAIN @ THEN @ ELSE Put(@, c, vocab_map[t]),
                !.forcedStore = IF call[t].force_reload THEN @ \cup {c} ELSE @]
           /\ ret' = [ret EXCEPT ![t] = Returned(t, vocab_map[t])]
    /\ pc' = [pc EXCEPT ![t] = "done"]
    /\ vocab_map' = [vocab_map EXCEPT ![t] = EmptyTable]
    /\ UNCHANGED <<call, out, ncalls, NotVocab>>

\* "if vocab_map: _vocab_cache[cache_key] = vocab_map", then the return.
Store(t) ==
    /\ pc[t] = "store"
    /\ LET c == call[t].vocab_name IN
           /\ IF vocab_map[t] # EmptyTable
              THEN /\ vocab_cache' = Put(vocab_cache, c, vocab_map[t])
                   /\ hist' = [hist EXCEPT
                        !.loaded = @ \cup {c},
                        !.first = IF c \in DOMAIN @ THEN @ ELSE Put(@, c, vocab_map[t]),
                        !.forcedStore = IF call[t].force_reload THEN @ \cup {c} ELSE @]
              ELSE /\ UNCHANGED vocab_cache
                   /\ hist' = [hist EXCEPT !.loaded = @ \cup {c}]
           /\ ret' = [ret EXCEPT ![t] = Returned(t, vocab_map[t])]
    /\ pc' = [pc EXCEPT ![t] = "done"]
    /\ vocab_map' = [vocab_map EXCEPT ![t] = EmptyTable]
    /\ UNCHANGED <<call, out, ncalls, NotVocab>>

\* The caller takes the result; the thread is free for its next call.
Return(t) ==
    /\ pc[t] = "done"
    /\ pc' = [pc EXCEPT ![t] = "idle"]
    /\ call' = [call EXCEPT ![t] = NoCall]
    /\ vocab_map' = [vocab_map EXCEPT ![t] = EmptyTable]
    /\ ret' = [ret EXCEPT ![t] = NoRet]
    /\ out' = [out EXCEPT ![t] = NoOut]
    /\ UNCHANGED <<vocab_cache, hist, ncalls, NotVocab>>

------------------------------------------------------------------------------
(* One table, parsed from its content lines, and resolutions against it *)

\* Labels and identifiers of the content lines, and the values resolved.
\* "ab" stands for a notation such as "mensal", "u^ p" for a label with an
\* accent and a space such as "Saude Publica" written with its accents.
Uris == {<<"iri:1">>, <<"iri:2">>}
LineLabels == {<<"a", "b">>, <<"A", "B">>, <<"A", "b">>, <<"a", " ", "b">>,
               <<"a", "_", "b">>, <<"u", " ", "p">>}
OddLines == { << <<"#", "x">>, <<"a", "b">> >>,      \* a comment line
              << <<"iri:1">> >> }                    \* a line with one field
CsvLines == {<<u, l>> : u \in Uris, l \in LineLabels} \cup OddLines
ResolveValues ==
    {<<>>, <<" ">>, <<"a", "b">>, <<"A", "B">>, <<"A", "b">>, <<" ", "a", "b", " ">>,
     <<"a", " ", "b">>, <<"A", " ", "B">>, <<"a", "-", "b">>, <<"A", "_", "B">>,
     <<"U^", " ", "p">>, <<"u^", " ", "P">>, <<"b", "a">>}
ResolveVocabs == {"freq", "vcr-lu", "themes"}

NoResolved == [done |-> FALSE, value |-> <<>>, vocab_name |-> "none",
               iri |-> None, iriOfUpper |-> None]

ResolveInit ==
    /\ csv_lines = <<>>
    /\ resolved = NoResolved

\* The source of the table gets one more content line (before the table is
\* loaded and used).
AddLine(parts) ==
    /\ ~resolved.done
    /\ Len(csv_lines) < MaxLines
    /\ csv_lines' = Append(csv_lines, parts)
    /\ resolved' = NoResolved
    /\ UNCHANGED NotResolve

\* convert_to_iri(value, vocab_name) and convert_to_iri(value.upper(),
\* vocab_name), with load_vocab answering the table parsed from csv_lines
\* (the empty table when there is no content line).
Resolve(value, vocab_name) ==
    /\ ~resolved.done
    /\ resolved' = [done |-> TRUE, value |-> value, vocab_name |-> vocab_name,
                    iri |-> ConvertToIri(value, vocab_name, ParseCsv(csv_lines)),
                    iriOfUpper |-> ConvertToIri(Upper(value), vocab_name,
                                                ParseCsv(csv_lines))]
    /\ UNCHANGED <<csv_lines, NotResolve>>

------------------------------------------------------------------------------
(* Calls of normalize_date *)

\* The dates written in the arguments: day, month and year numbers, among
\* them days and months no calendar has, and the ways they are written.
Days == {0, 1, 28, 29, 30, 31, 32, 311}
Months == {0, 1, 2, 4, 12, 13}
Years == {999, 1900, 2000, 2023, 2024}
DateShapes == {"dd/mm/yyyy", "dd/mm/yyyy hh:mm:ss", "yyyy-mm-dd",
               "yyyy-mm-ddThh:mm:ss", "yyyy-mm-ddThh:mm:ss.f", "yyyy-mm-dd hh:mm:ss",
               "dd-mm-yyyy", "yyyy/mm/dd", "d/m/yyyy", " yyyy-mm-dd ",
               "yyyy-mm-dd NA"}

TimeText == <<"1", "0", ":", "0", "0", ":", "0", "0">>

\* The text of day d, month m, year y in a shape: the year with four digits,
\* day and month with two digits or more (or, in d/m/yyyy, as few as it takes).
Render(shape, y, m, d) ==
    LET dd == Padded(d, 2)
        mm == Padded(m, 2)
        yyyy == Padded(y, 4)
        iso == yyyy \o <<"-">> \o mm \o <<"-">> \o dd
        br == dd \o <<"/">> \o mm \o <<"/">> \o yyyy
    IN  CASE shape = "dd/mm/yyyy" -> br
          [] shape = "dd/mm/yyyy hh:mm:ss" -> br \o <<" ">> \o TimeText
          [] shape = "yyyy-mm-dd" -> iso
          [] shape = "yyyy-mm-ddThh:mm:ss" -> iso \o <<"T">> \o TimeText
          [] shape = "yyyy-mm-ddThh:mm:ss.f" -> iso \o <<"T">> \o TimeText \o <<".", "5">>
          [] shape = "yyyy-mm-dd hh:mm:ss" -> iso \o <<" ">> \o TimeText
          [] shape = "dd-mm-yyyy" -> dd \o <<"-">> \o mm \o <<"-">> \o yyyy
          [] shape = "yyyy/mm/dd" -> yyyy \o <<"/">> \o mm \o <<"/">> \o dd
          [] shape = "d/m/yyyy" -> Padded(d, 1) \o <<"/">> \o Padded(m, 1) \o <<"/">> \o yyyy
          [] shape = " yyyy-mm-dd " -> <<" ">> \o iso \o <<" ">>
          [] shape = "yyyy-mm-dd NA" -> iso \o <<" ", "N", "A">>

\* Arguments that are no date: not a text, an empty text, a marker of an
\* unavailable value, another word.
OtherArguments ==
    { [shape |-> "not text", value |-> PyNone],
      [shape |-> "not text", value |-> PyNum(20240131)],
      [shape |-> "not text", value |-> PyBool(TRUE)],
      [shape |-> "word", value |-> PyStr(<<>>)],
      [shape |-> "word", value |-> PyStr(<<"x", "x">>)],
      [shape |-> "marker", value |-> PyStr(<<"I", "n", "d", "i", "s", "p", "o", "n", "i^", "v", "e", "l">>)],
      [shape |-> "marker", value |-> PyStr(<<"N", "U", "L", "L">>)],
      [shape |-> "marker", value |-> PyStr(<<"N", "/", "A">>)] }

DateArguments ==
    { [shape |-> sh, y |-> y, m |-> m, d |-> d, value |-> PyStr(Render(sh, y, m, d))] :
        sh \in DateShapes, y \in Years, m \in Months, d \in Days }
    \cup { [shape |-> a.shape, y |-> 0, m |-> 0, d |-> 0, value |-> a.value] :
             a \in OtherArguments }

NoDateIn == [shape |-> "none", y |-> 0, m |-> 0, d |-> 0, value |-> PyNone]

DateInit ==
    /\ date_in = NoDateIn
    /\ date_out = [called |-> FALSE, result |-> None]

\* normalize_date(arg.value) is called and returns.
NormalizeDateCall(arg, padYear) ==
    /\ ~date_out.called
    /\ date_in' = arg
    /\ date_out' = [called |-> TRUE, result |-> NormalizeDate(arg.value, padYear)]
    /\ UNCHANGED NotDate

------------------------------------------------------------------------------
(* Records given to api_to_rdf, by a caller of the API route or from a CSV row *)

\* Texts of the input records: one listed in every vocabulary table, one
\* listed in none, a name with a blank and an accent, a network address.
Listed == <<"a", "b">>
Unlisted == <<"x", "x">>
ThemeName == <<"S", "a", "u^", "d", "e", " ", "P", "u^", "b", "l", "i", "c", "a">>
Address == <<"h", "t", "t", "p", ":", "/", "/", "l">>
DateText == <<"3", "1", "/", "0", "1", "/", "2", "0", "2", "4">>
NoDateText == <<"3", "0", "/", "0", "2", "/", "2", "0", "2", "4">>

TextKeys == {"id", "nome", "name", "titulo", "title", "descricao", "notes", "versao", "version",
             "responsavel", "maintainer", "emailResponsavel", "maintainer_email",
             "coberturaEspacial", "granularidadeEspacial"}
VocabKeys == {"periodicidade", "observanciaLegal"}
LicenseKeys == {"licenca", "license_id"}
DateKeys == {"dataCatalogacao", "metadata_created", "dataUltimaAtualizacaoMetadados",
             "metadata_modified", "coberturaTemporalInicio", "coberturaTemporalFim"}
FlagKeys == {"dadosRacaEtnia", "dadosGenero"}
ThemeKeys == {"temas", "groups"}
ResourceKeys == {"recursos", "resources"}
\* The attributes api_to_rdf looks up in the extras
ExtraKeys == {"periodicidade", "coberturaEspacial", "observanciaLegal", "dadosRacaEtnia",
              "dadosGenero", "granularidadeEspacial", "coberturaTemporalInicio",
              "coberturaTemporalFim"}
DataKeys == TextKeys \cup VocabKeys \cup LicenseKeys \cup DateKeys \cup FlagKeys \cup ThemeKeys
            \cup ResourceKeys \cup {"organizacao", "organization", "tags", "extras"}

FlagValues ==
    {PyBool(TRUE), PyBool(FALSE), PyNone, PyStr(<<>>), PyStr(<<"t", "r", "u", "e">>),
     PyStr(<<"T", "R", "U", "E">>), PyStr(<<"F", "a", "l", "s", "e">>), PyStr(<<"s", "i", "m">>)}

Resources ==
    { PyDict(<<>>),
      PyDict([id |-> PyNone]),
      PyDict([id |-> PyStr(<<"r1">>), name |-> PyStr(<<"n">>), format |-> PyStr(Listed),
              url |-> PyStr(<<"u">>), size |-> PyStr(<<"1", "5", "0", "0">>)]),
      PyDict([id |-> PyStr(<<"r1">>), titulo |-> PyStr(<<"t">>), formato |-> PyStr(Unlisted),
              tipo |-> PyStr(Listed), tamanho |-> PyStr(<<"0">>)]),
      PyDict([id |-> PyStr(<<"r2">>), recursoApiView |-> PyNone]),
      PyDict([id |-> PyStr(<<"r2">>), recursoApiView |-> PyDict([titulo |-> PyStr(<<"v">>)]),
              recursoForm |-> PyDict([titulo |-> PyStr(<<"f">>), tamanho |-> PyStr(<<"a", "b">>),
                                      dataCatalogacao |-> PyStr(DateText)])]),
      PyDict([id |-> PyStr(<<"r3">>), last_modified |-> PyNum(5)]),
      PyDict([id |-> PyStr(<<"r4">>), size |-> PyStr(<<"-", "5">>)]),
      PyStr(<<"r">>) }

\* The values a key of an input record is given
Values(k) ==
    CASE k \in TextKeys ->
            {PyNone, PyStr(<<>>), PyStr(<<"text of ", k>>)}
            \cup (IF k = "coberturaEspacial" THEN {PyStr(<<"-">>)} ELSE {})
      [] k \in VocabKeys -> {PyStr(<<>>), PyStr(Listed), PyStr(Unlisted), PyNum(5)}
      [] k \in LicenseKeys -> {PyStr(<<>>), PyStr(Listed), PyStr(Unlisted), PyStr(Address), PyNum(5)}
      [] k \in DateKeys -> {PyStr(<<>>), PyStr(DateText), PyStr(NoDateText), PyNum(5)}
      [] k \in FlagKeys -> FlagValues
      [] k = "organizacao" ->
            {PyStr(<<>>), PyStr(<<"Org">>), PyNum(5),
             PyDict([title |-> PyStr(<<>>), display_name |-> PyStr(<<"D">>), name |-> PyStr(<<"N">>)])}
      [] k = "organization" ->
            {PyNone, PyStr(<<"Org">>), PyDict(<<>>), PyDict([name |-> PyStr(<<"N">>)]),
             PyDict([title |-> PyStr(<<"T">>), display_name |-> PyStr(<<"D">>), name |-> PyStr(<<"N">>)])}
      [] k = "tags" ->
            {PyNone, PyList(<<>>), PyList(<< PyStr(<<"t">>) >>),
             PyList(<< PyDict([name |-> PyStr(<<"t">>)]), PyDict([name |-> PyNone]) >>)}
      [] k \in ThemeKeys ->
            {PyNone, PyList(<<>>), PyList(<< PyStr(Listed) >>),
             PyList(<< PyDict([name |-> PyStr(Listed)]) >>),
             PyList(<< PyDict([title |-> PyStr(ThemeName)]) >>)}
      [] k \in ResourceKeys ->
            {PyNone, PyList(<<>>)} \cup {PyList(<<r>>) : r \in Resources}
            \cup {PyList(<<r1, r2>>) : r1, r2 \in {r \in Resources : r.kind = "dict" /\ "id" \in DOMAIN r.d
                                                                      /\ r.d["id"] = PyStr(<<"r1">>)}}
            \cup {PyList(<< PyDict(<<>>), PyDict([id |-> PyNone]) >>),
                  PyList(<< PyDict([id |-> PyNone, name |-> PyStr(<<"n">>)]),
                            PyDict([id |-> PyStr(<<"None">>), url |-> PyStr(<<"u">>)]) >>),
                  PyList(<< PyDict([id |-> PyNum(1)]), PyDict([id |-> PyStr(<<"1">>)]) >>)}
      [] k = "extras" -> {PyNone, PyStr(<<"x">>), PyList(<< PyStr(<<"x">>) >>)}

\* The values a column of a CSV row holds: a text, or None for a column the
\* row is too short for
ColumnValues(c) ==
    CASE c \in BasicColumns -> {v \in Values(c) : v.kind = "str"} \cup {PyNone}
      [] c \in FlagColumns -> {v \in FlagValues : v.kind = "str"} \cup {PyNone, PyStr(Unlisted)}
      [] c \in JsonColumns -> {PyStr(doc.text) : doc \in JsonDocs} \cup {PyStr(<<>>), PyStr(<<"[oops">>)}

NoRdf == [built |-> FALSE, raised |-> FALSE, triples |-> {}, tables |-> {}]

BuildInit ==
    /\ csv_row = <<>>
    /\ record = <<>>
    /\ rdf = NoRdf
    /\ rdf_again = NoRdf

\* The caller's record gets a key.
SetKey(k, v) ==
    /\ csv_row = <<>> /\ ~rdf.built
    /\ k \notin DOMAIN record
    /\ Cardinality(DOMAIN record) < MaxKeys
    /\ record' = Put(record, k, v)
    /\ UNCHANGED <<csv_row, rdf, rdf_again>>
    /\ UNCHANGED NotBuild

\* The caller's record gets an entry in its extras.
AddExtra(k, v) ==
    LET extras == GetDef(record, "extras", PyList(<<>>))
    IN  /\ csv_row = <<>> /\ ~rdf.built
        /\ extras.kind = "list" /\ \A i \in DOMAIN extras.l : extras.l[i].kind = "dict"
        /\ Len(extras.l) < MaxExtras
        /\ "extras" \in DOMAIN record \/ Cardinality(DOMAIN record) < MaxKeys
        /\ record' = Put(record, "extras",
                       PyList(Append(extras.l, PyDict([key |-> PyStr(<<k>>), value |-> v]))))
        /\ UNCHANGED <<csv_row, rdf, rdf_again>>
        /\ UNCHANGED NotBuild

\* The CSV row gets a column.
SetColumn(c, v) ==
    /\ record = <<>> /\ ~rdf.built
    /\ c \notin DOMAIN csv_row
    /\ Cardinality(DOMAIN csv_row) < MaxKeys
    /\ csv_row' = Put(csv_row, c, v)
    /\ UNCHANGED <<record, rdf, rdf_again>>
    /\ UNCHANGED NotBuild

\* csv_row_to_dict(row) makes the record of the row.
CsvRowToDictCall ==
    /\ csv_row # <<>> /\ record = <<>>
    /\ record' = CsvRowToDict(csv_row)
    /\ UNCHANGED <<csv_row, rdf, rdf_again>>
    /\ UNCHANGED NotBuild

\* What a call of api_to_rdf leaves: the graph g it built, or that it raised,
\* and the tables it found
GraphBuilt(g, avail) ==
    [built |-> TRUE, raised |-> g.raised, triples |-> g.triples, tables |-> avail]

\* api_to_rdf(data) builds the graph of the record.
ApiToRdfCall(avail, padYear) ==
    /\ ~rdf.built
    /\ csv_row = <<>> \/ record # <<>>
    /\ rdf' = GraphBuilt(ApiToRdf(record, EnvOf(avail, padYear)), avail)
    /\ UNCHANGED <<csv_row, record, rdf_again>>
    /\ UNCHANGED NotBuild

\* The graph of a call is kept as the first one, or as the later one.
KeepGraph(graph) ==
    IF rdf.built
    THEN rdf_again' = graph /\ UNCHANGED rdf
    ELSE rdf' = graph /\ UNCHANGED rdf_again

\* api_to_rdf(data) is called with the caller's record, for the first time or
\* once more.  A table that load_vocab returned to the first call is in
\* _vocab_cache and is returned again; a table that could not be loaded then
\* is not in the cache, and the sources are read anew, with either outcome.
ApiToRdfRepeated(avail, padYear) ==
    /\ ~rdf_again.built
    /\ csv_row = <<>>
    /\ rdf.built => rdf.tables \subseteq avail
    /\ KeepGraph(GraphBuilt(ApiToRdf(record, EnvOf(avail, padYear)), avail))
    /\ UNCHANGED <<csv_row, record>>
    /\ UNCHANGED NotBuild

------------------------------------------------------------------------------
(* validate_rdf.py: the format guess and the parse attempts of validate_rdf *)

\* s.endswith(p)
EndsWith(s, p) == Len(s) >= Len(p) /\ SubSeq(s, Len(s) - Len(p) + 1, Len(s)) = p

\* _detect_rdf_format(content, filename): by the extension of the file name,
\* or else by the head of the content (the texts of the model are shorter
\* than the 500 characters it looks at), or else turtle.
DetectRdfFormat(content, name) ==
    LET filename_lower == Lower(name.s)
        content_str == content
    IN  IF Truthy(name) /\ EndsWith(filename_lower, <<".", "t", "t", "l">>) THEN "turtle"
        ELSE IF Truthy(name) /\ (\/ EndsWith(filename_lower, <<".", "r", "d", "f">>)
                                 \/ EndsWith(filename_lower, <<".", "x", "m", "l">>)) THEN "xml"
        ELSE IF Truthy(name) /\ (\/ EndsWith(filename_lower, <<".", "j", "s", "o", "n", "l", "d">>)
                                 \/ EndsWith(filename_lower, <<".", "j", "s", "o", "n">>))
        THEN "json-ld"
        ELSE IF Truthy(name) /\ EndsWith(filename_lower, <<".", "n", "t">>) THEN "ntriples"
        ELSE IF Truthy(name) /\ EndsWith(filename_lower, <<".", "n", "3">>) THEN "n3"
        ELSE IF StartsWith(Strip(content_str), "<?xml") \/ Contains(content_str, <<"<rdf:RDF">>)
        THEN "xml"
        ELSE IF StartsWith(Strip(content_str), "@prefix") \/ StartsWith(Strip(content_str), "PREFIX")
        THEN "turtle"
        ELSE IF Contains(content_str, <<"{">>) /\ Contains(content_str, <<"@context">>)
        THEN "json-ld"
        ELSE "turtle"

\* line 46: the formats tried after the guessed one, in this order
FormatsToTry == <<"turtle", "xml", "json-ld", "ntriples", "n3">>

\* list.remove(x): the list without the first x in it
RECURSIVE Remove(_, _)
Remove(l, x) ==
    IF l = <<>> THEN <<>>
    ELSE IF Head(l) = x THEN Tail(l)
    ELSE <<Head(l)>> \o Remove(Tail(l), x)

\* What Graph.parse(data=..., format=fmt) does with a text: it raises, or it
\* returns leaving the graph empty, or it returns with triples in the graph.
ParseOutcomes == {"raises", "empty", "triples"}

\* The heads of the contents given to validate_rdf
Contents ==
    { <<>>,
      <<" ", "<?xml", " ", "<rdf:RDF">>,
      <<"<", "!", "-", "-", "<rdf:RDF">>,
      <<" ", "@prefix", " ", "e", ":">>,
      <<"PREFIX", " ", "e", ":">>,
      <<"{", "@context", ":">>,
      <<"@context", " ", "x">>,
      <<"<", "s", ">", " ", "<", "p", ">">> }

\* The file contents: a text, whether its bytes are UTF-8, and what parsing
\* it in each format does
Files ==
    { [text |-> c, utf8 |-> u, parses |-> f] :
        c \in Contents, u \in BOOLEAN, f \in [{"turtle", "xml", "json-ld", "ntriples", "n3"} -> ParseOutcomes] }

\* The file names
FileNames ==
    { PyNone, PyStr(<<>>),
      PyStr(<<"f", ".", "t", "t", "l">>), PyStr(<<"F", ".", "R", "D", "F">>),
      PyStr(<<"f", ".", "x", "m", "l">>), PyStr(<<"f", ".", "j", "s", "o", "n", "l", "d">>),
      PyStr(<<"f", ".", "j", "s", "o", "n">>), PyStr(<<"f", ".", "N", "T">>),
      PyStr(<<"f", ".", "n", "3">>), PyStr(<<"f", ".", "t", "x", "t">>) }

\* lines 71-138: what follows once the content is parsed -- the SHACL
\* directory or its files are missing, a shapes file does not load, the
\* validation raises, or it returns that the graph conforms or does not
ShaclOutcomes ==
    {"no_shacl_dir", "no_shacl_files", "shacl_load_error", "validation_error",
     "conforms", "violations"}

\* Every "return False, [message], []" of validate_rdf
Failure(message) == [conforms |-> FALSE, errors |-> <<message>>, warnings |-> <<>>]

\* lines 77-82: the shapes files, in the order they are loaded
ShapesFiles == <<"shapes.ttl", "range.ttl", "shapes_recommended.ttl", "mdr-vocabularies.shape.ttl">>

\* lines 100-101: the ontology files
OntologyFiles == <<"imports.ttl", "mdr_imports.ttl">>

\* How many candidate directories _get_shacl_path goes through in the model
MaxPaths == 2

\* A candidate directory: resolving it raises OSError, or nothing is there, or
\* it is a directory holding some of the shapes files
Directories ==
    {[state |-> "raises", files |-> {}], [state |-> "absent", files |-> {}]}
        \cup {[state |-> "dir", files |-> S] : S \in SUBSET {ShapesFiles[i] : i \in 1..Len(ShapesFiles)}}

NoPath == [found |-> FALSE, files |-> {}]

\* _get_shacl_path(): the first candidate that is a directory with shapes.ttl
\* in it, or None
GetShaclPath(paths) ==
    LET good == {i \in 1..Len(paths) :
                    paths[i].state = "dir" /\ "shapes.ttl" \in paths[i].files}
    IN  IF good = {} THEN NoPath
        ELSE [found |-> TRUE, files |-> paths[SetMin(good)].files]

\* A node of the report graph: its rdf:type, and its sh:resultMessage,
\* sh:focusNode and sh:resultPath (<<>> where it has none)
ReportNodes ==
    { [id |-> "v1", type |-> "sh:Violation", message |-> <<"m">>, focus |-> <<"f">>, path |-> <<"p">>],
      [id |-> "v2", type |-> "sh:Violation", message |-> <<>>, focus |-> <<>>, path |-> <<>>],
      [id |-> "w1", type |-> "sh:Warning", message |-> <<"m">>, focus |-> <<"f">>, path |-> <<"p">>],
      [id |-> "w2", type |-> "sh:Warning", message |-> <<>>, focus |-> <<>>, path |-> <<>>],
      [id |-> "r1", type |-> "sh:ValidationResult", message |-> <<"m">>, focus |-> <<"f">>, path |-> <<"p">>] }

\* v_graph.subjects(RDF.type, type): the nodes of that type, as the graph
\* enumerates them
Subjects(v_graph, type) == SelectSeq(v_graph, LAMBDA n : n.type = type)

\* lines 229-234: the message of a violation
ErrorMsg(n) ==
    (IF n.message # <<>> THEN n.message ELSE <<"Violation found">>)
        \o (IF n.focus # <<>> THEN <<" at ">> \o n.focus ELSE <<>>)
        \o (IF n.path # <<>> THEN <<" (property: ">> \o n.path \o <<")">> ELSE <<>>)

\* lines 244-246: the message of a warning
WarningMsg(n) ==
    (IF n.message # <<>> THEN n.message ELSE <<"Warning found">>)
        \o (IF n.focus # <<>> THEN <<" at ">> \o n.focus ELSE <<>>)

\* str.split(sep): the pieces of s between the separators
RECURSIVE Split(_, _)
Split(s, sep) ==
    LET at_sep == {i \in 1..Len(s) : s[i] = sep}
    IN  IF at_sep = {} THEN <<s>>
        ELSE <<SubSeq(s, 1, SetMin(at_sep) - 1)>> \o Split(SubSeq(s, SetMin(at_sep) + 1, Len(s)), sep)

\* line 259: a line of the report text that is taken for an error
IsErrorLine(line) ==
    \/ Contains(Lower(line), <<"v", "i", "o", "l", "a", "t", "i", "o", "n">>)
    \/ Contains(Lower(line), <<"e", "r", "r", "o", "r">>)

\* (a variant of IsWarningLine that also takes the lines for a warning that
\* are taken for an error)
IsWarningLineToo(line) == Contains(Lower(line), <<"w", "a", "r", "n", "i", "n", "g">>)

\* line 262: a line of the report text that is taken for a warning
IsWarningLine(line) ==
    ~IsErrorLine(line) /\ Contains(Lower(line), <<"w", "a", "r", "n", "i", "n", "g">>)

\* [line.strip() for line in l]
StripEach(l) == [i \in 1..Len(l) |-> Strip(l[i])]

\* _parse_validation_results(v_graph, v_text): the errors and warnings of the
\* nodes of the report graph, or else those of the lines of the report text
ParseValidationResults(v_graph, v_text) ==
    LET node_errors ==
            IF v_graph # <<>>
            THEN [i \in 1..Len(Subjects(v_graph, "sh:Violation")) |->
                     ErrorMsg(Subjects(v_graph, "sh:Violation")[i])]
            ELSE <<>>
        node_warnings ==
            IF v_graph # <<>>
            THEN [i \in 1..Len(Subjects(v_graph, "sh:Warning")) |->
                     WarningMsg(Subjects(v_graph, "sh:Warning")[i])]
            ELSE <<>>
        lines == Split(v_text.s, "\n")
    IN  IF Truthy(v_text) /\ node_errors = <<>> /\ node_warnings = <<>>
        THEN [errors |-> StripEach(SelectSeq(lines, LAMBDA l : IsErrorLine(l) /\ Strip(l) # <<>>)),
              warnings |-> StripEach(SelectSeq(lines, LAMBDA l : IsWarningLine(l) /\ Strip(l) # <<>>))]
        ELSE [errors |-> node_errors, warnings |-> node_warnings]

NoFile == [text |-> <<>>, utf8 |-> TRUE, parses |-> <<>>]
NoGraph == [format |-> "", populated |-> FALSE]
NoEngine == [raises |-> FALSE, conforms |-> FALSE, v_graph |-> <<>>, v_text |-> PyNone]
NoReturn == [conforms |-> FALSE, errors |-> <<>>, warnings |-> <<>>]

ValidateInit ==
    /\ file_content = NoFile
    /\ filename = PyNone
    /\ at = "idle"
    /\ rdf_format = ""
    /\ data_graph = NoGraph
    /\ parse_error = ""
    /\ parsed = FALSE
    /\ used_format = ""
    /\ formats_to_try = <<>>
    /\ attempts = <<>>
    /\ result = ""
    /\ possible_paths = <<>>
    /\ shacl_path = NoPath
    /\ shacl_graph = <<>>
    /\ ont_graph = <<>>
    /\ ont_errors = {}
    /\ engine = NoEngine
    /\ returned = NoReturn

\* lines 23-34: validate_rdf(file, name) is called; it guesses the format and
\* decodes the bytes, which ends the call when they are not UTF-8 (line 141).
ValidateRdfCall(file, name) ==
    /\ at = "idle"
    /\ file_content' = file
    /\ filename' = name
    /\ rdf_format' = DetectRdfFormat(file.text, name)
    /\ at' = IF file.utf8 THEN "first" ELSE "done"
    /\ result' = IF file.utf8 THEN "" ELSE "decode_error"
    /\ returned' = IF file.utf8 THEN returned
                   ELSE Failure(<<"Error decoding file. Ensure it is UTF-8 encoded">>)
    /\ UNCHANGED <<data_graph, parse_error, parsed, used_format, formats_to_try, attempts,
                   possible_paths, shacl_path, shacl_graph, ont_graph, ont_errors, engine>>
    /\ UNCHANGED NotValidate

\* lines 37-49: the attempt with the guessed format.  With triples the
\* content is parsed; with an empty graph nothing more is tried; an exception
\* enters the handler, which sets up the list of the other formats.
ParseFirst ==
    LET outcome == file_content.parses[rdf_format]
    IN  /\ at = "first"
        /\ attempts' = Append(attempts, rdf_format)
        /\ data_graph' = [format |-> rdf_format, populated |-> outcome = "triples"]
        /\ parsed' = (outcome = "triples")
        /\ used_format' = IF outcome = "triples" THEN rdf_format ELSE used_format
        /\ parse_error' = IF outcome = "raises" THEN rdf_format ELSE parse_error
        /\ formats_to_try' = IF outcome = "raises" THEN Remove(FormatsToTry, rdf_format)
                             ELSE formats_to_try
        /\ at' = IF outcome = "raises" THEN "fallback" ELSE "check"
        /\ UNCHANGED <<file_content, filename, rdf_format, result, possible_paths, shacl_path, shacl_graph,
                       ont_graph, ont_errors, engine, returned>>
        /\ UNCHANGED NotValidate

\* lines 51-62: one turn of the loop over the other formats, with a new
\* graph: triples end the loop, an empty graph or an exception go on to the
\* next format, the last format ends the loop.
ParseNext ==
    LET fmt == Head(formats_to_try)
        outcome == file_content.parses[fmt]
    IN  /\ at = "fallback"
        /\ formats_to_try # <<>>
        /\ attempts' = Append(attempts, fmt)
        /\ data_graph' = [format |-> fmt, populated |-> outcome = "triples"]
        /\ parsed' = (outcome = "triples")
        /\ used_format' = IF outcome = "triples" THEN fmt ELSE used_format
        /\ parse_error' = IF outcome = "raises" THEN fmt ELSE parse_error
        /\ formats_to_try' = Tail(formats_to_try)
        /\ at' = IF outcome = "triples" \/ Tail(formats_to_try) = <<>> THEN "check" ELSE "fallback"
        /\ UNCHANGED <<file_content, filename, rdf_format, result, possible_paths, shacl_path, shacl_graph,
                       ont_graph, ont_errors, engine, returned>>
        /\ UNCHANGED NotValidate

\* lines 64-74: without a parsed graph validate_rdf returns the parse error;
\* with one it looks for the SHACL directory and returns when there is none.
GetShaclPathCall(paths) ==
    LET path == GetShaclPath(paths)
        left == IF ~parsed THEN "parse_error"
                ELSE IF ~data_graph.populated THEN "empty_graph"
                ELSE IF ~path.found THEN "no_shacl_dir"
                ELSE ""
    IN  /\ at = "check"
        /\ possible_paths' = IF parsed /\ data_graph.populated THEN paths ELSE possible_paths
        /\ shacl_path' = IF parsed /\ data_graph.populated THEN path ELSE shacl_path
        /\ result' = left
        /\ returned' =
              CASE left = "parse_error" ->
                     Failure(<<"Error parsing RDF file. Detected format: ", rdf_format,
                               ". Error: ", parse_error>>)
                [] left = "empty_graph" ->
                     Failure(<<"O arquivo RDF esta vazio ou nao contem dados validos">>)
                [] left = "no_shacl_dir" -> Failure(<<"SHACL files directory not found">>)
                [] OTHER -> returned
        /\ at' = IF left = "" THEN "shapes" ELSE "done"
        /\ UNCHANGED <<file_content, filename, rdf_format, data_graph, parse_error, parsed,
                       used_format, formats_to_try, attempts, shacl_graph, ont_graph, ont_errors, engine>>
        /\ UNCHANGED NotValidate

\* lines 77-96: the shapes files that exist are loaded in order into one
\* graph; validate_rdf returns when none exists and when one does not load.
\* loads[f] is what Graph.parse does with the file f.
LoadShapes(loads) ==
    LET existing_shapes_files == SelectSeq(ShapesFiles, LAMBDA f : f \in shacl_path.files)
        failing == {i \in 1..Len(existing_shapes_files) : loads[existing_shapes_files[i]] = "raises"}
    IN  /\ at = "shapes"
        /\ IF existing_shapes_files = <<>>
           THEN /\ result' = "no_shacl_files"
                /\ returned' = Failure(<<"No SHACL files found">>)
                /\ at' = "done"
                /\ UNCHANGED shacl_graph
           ELSE IF failing # {}
           THEN /\ result' = "shacl_load_error"
                /\ returned' = Failure(<<"Error loading SHACL file ",
                                         existing_shapes_files[SetMin(failing)], ": ", "e">>)
                /\ at' = "done"
                /\ shacl_graph' = SubSeq(existing_shapes_files, 1, SetMin(failing) - 1)
           ELSE /\ shacl_graph' = existing_shapes_files
                /\ at' = "ontology"
                /\ UNCHANGED <<result, returned>>
        /\ UNCHANGED <<file_content, filename, rdf_format, data_graph, parse_error, parsed,
                       used_format, formats_to_try, attempts, possible_paths, shacl_path, ont_graph, ont_errors, engine>>
        /\ UNCHANGED NotValidate

\* (a variant of LoadOntology in which an ontology file that does not load
\* ends the call, as a shapes file that does not load does)
LoadOntologyCritical(loads) ==
    /\ at = "ontology"
    /\ ont_graph' = SelectSeq(OntologyFiles, LAMBDA f : loads[f] = "loads")
    /\ ont_errors' = {f \in DOMAIN loads : loads[f] = "raises"}
    /\ at' = IF ont_errors' = {} THEN "engine" ELSE "done"
    /\ result' = IF ont_errors' = {} THEN result ELSE "ontology_load_error"
    /\ returned' = IF ont_errors' = {} THEN returned
                   ELSE Failure(<<"Error loading ontology file">>)
    /\ UNCHANGED <<file_content, filename, rdf_format, data_graph, parse_error, parsed,
                   used_format, formats_to_try, attempts, possible_paths, shacl_path,
                   shacl_graph, engine>>
    /\ UNCHANGED NotValidate

\* lines 99-115: the ontology files that exist are loaded; one that does not
\* load is passed over.  loads[f] is "missing", "loads" or "raises".
LoadOntology(loads) ==
    /\ at = "ontology"
    /\ ont_graph' = SelectSeq(OntologyFiles, LAMBDA f : loads[f] = "loads")
    /\ ont_errors' = {f \in DOMAIN loads : loads[f] = "raises"}
    /\ at' = "engine"
    /\ UNCHANGED <<file_content, filename, rdf_format, data_graph, parse_error, parsed,
                   used_format, formats_to_try, attempts, result, possible_paths, shacl_path, shacl_graph,
                   engine, returned>>
    /\ UNCHANGED NotValidate

\* lines 117-138: pyshacl.validate raises, or it gives conforms, the report
\* graph and the report text, which _parse_validation_results turns into the
\* errors and warnings that validate_rdf returns next to conforms.
PyshaclValidate(outcome) ==
    LET report == ParseValidationResults(outcome.v_graph, outcome.v_text)
    IN  /\ at = "engine"
        /\ engine' = outcome
        /\ result' = IF outcome.raises THEN "validation_error"
                     ELSE IF outcome.conforms THEN "conforms" ELSE "violations"
        /\ returned' = IF outcome.raises THEN Failure(<<"Error during SHACL validation: ", "e">>)
                       ELSE [conforms |-> outcome.conforms, errors |-> report.errors,
                             warnings |-> report.warnings]
        /\ at' = "done"
        /\ UNCHANGED <<file_content, filename, rdf_format, data_graph, parse_error, parsed,
                       used_format, formats_to_try, attempts, possible_paths, shacl_path, shacl_graph, ont_graph, ont_errors>>
        /\ UNCHANGED NotValidate

------------------------------------------------------------------------------
(* evaluate_csv_datasets.py: the loop of process_csv over the records *)

\* datasets[:limit] for a list of n rows: the row numbers that are kept
Sliced(n, limit) ==
    IF limit.kind = "none" \/ limit.n = 0 THEN [i \in 1..n |-> i]
    ELSE IF limit.n > 0 THEN [i \in 1..(IF limit.n < n THEN limit.n ELSE n) |-> i]
    ELSE [i \in 1..(IF n + limit.n > 0 THEN n + limit.n ELSE 0) |-> i]

\* What the body of the loop meets for one record: api_to_rdf raises, or
\* validate_rdf raises, or validate_rdf returns is_valid
RecordOutcomes ==
    {[raises |-> "api_to_rdf", valid |-> FALSE], [raises |-> "validate_rdf", valid |-> FALSE],
     [raises |-> "", valid |-> TRUE], [raises |-> "", valid |-> FALSE]}

NoMetadata == [total_datasets |-> 0, successful |-> 0, errors |-> 0, valid_count |-> 0,
               invalid_count |-> 0]

BatchInit ==
    /\ datasets = <<>>
    /\ idx = 0
    /\ results = <<>>
    /\ errors = <<>>
    /\ metadata = NoMetadata
    /\ batch_at = "idle"

\* lines 46-59: process_csv(csv_path, output_dir, limit) reads the rows of
\* the CSV file, keeps the first limit of them and enters the loop.
ProcessCsv(rows, limit) ==
    /\ batch_at = "idle"
    /\ datasets' = Sliced(rows, limit)
    /\ idx' = 1
    /\ results' = <<>>
    /\ errors' = <<>>
    /\ batch_at' = "loop"
    /\ UNCHANGED metadata
    /\ UNCHANGED NotBatch

\* (a variant of ProcessDataset without the handler of line 99: a record that
\* raises ends the call)
ProcessDatasetUnguarded(outcome) ==
    /\ batch_at = "loop"
    /\ idx <= Len(datasets)
    /\ IF outcome.raises = ""
       THEN /\ results' = Append(results, [dataset_id |-> datasets[idx], valid |-> outcome.valid,
                                           status |-> "success"])
            /\ idx' = idx + 1
            /\ UNCHANGED batch_at
       ELSE /\ batch_at' = "raised"
            /\ UNCHANGED <<results, idx>>
    /\ UNCHANGED <<datasets, errors, metadata>>
    /\ UNCHANGED NotBatch

\* lines 62-110: one turn of the loop.  The record is converted and
\* validated and its result appended to results; when either call raises,
\* the handler appends an entry to errors instead; the loop goes on.
ProcessDataset(outcome) ==
    /\ batch_at = "loop"
    /\ idx <= Len(datasets)
    /\ IF outcome.raises = ""
       THEN /\ results' = Append(results, [dataset_id |-> datasets[idx], valid |-> outcome.valid,
                                           status |-> "success"])
            /\ UNCHANGED errors
       ELSE /\ errors' = Append(errors, [dataset_id |-> datasets[idx], error |-> outcome.raises,
                                         status |-> "error"])
            /\ UNCHANGED results
    /\ idx' = idx + 1
    /\ UNCHANGED <<datasets, metadata, batch_at>>
    /\ UNCHANGED NotBatch

\* sum(1 for r in l if r's validation is valid), or is not valid
Count(l, valid) == Len(SelectSeq(l, LAMBDA r : r.valid = valid))

\* lines 112-147: after the loop the results are saved, with the counts of
\* the metadata; writing a file may raise, which ends the call.
SaveResults(written) ==
    /\ batch_at = "loop"
    /\ idx > Len(datasets)
    /\ metadata' = IF written
                   THEN [total_datasets |-> Len(datasets), successful |-> Len(results),
                         errors |-> Len(errors), valid_count |-> Count(results, TRUE),
                         invalid_count |-> Count(results, FALSE)]
                   ELSE metadata
    /\ batch_at' = IF written THEN "saved" ELSE "raised"
    /\ UNCHANGED <<datasets, idx, results, errors>>
    /\ UNCHANGED NotBatch

------------------------------------------------------------------------------
(* web_scrap.py: the row of a dataset, and the paged download *)

\* (v or "").strip(), for a value that is None or a text
StripOr(v) == Strip(Or(v, PyStr(<<>>)).s)

\* lines 83-105: _normalize_buscar_to_detail(registro), for the keys the
\* model follows
NormalizeBuscarToDetail(registro) ==
    LET org_title == StripOr(Get(registro, "organizationTitle"))
        org_name == StripOr(Get(registro, "organizationName"))
    IN  [id |-> Get(registro, "id"),
         name |-> Get(registro, "name"),
         title |-> Get(registro, "title"),
         organization |-> PyDict([display_name |-> PyStr(org_title), title |-> PyStr(org_title),
                                  name |-> PyStr(org_name)]),
         license_id |-> Get(registro, "licenca"),
         resources |-> Or(Get(registro, "resourcesFormatado"),
                          Or(Get(registro, "resourcesAcessoRapido"), PyList(<<>>)))]

\* lines 108-134: _recurso_to_5k(res, rf, dataset_id), for the mappings res
\* and rf
RecursoTo5k(res, rf, dataset_id) ==
    LET link == Or(Or(Get(res, "url"), Get(rf, "link")), PyStr(<<>>))
        titulo_rec == Or(Or(Get(res, "name"), Get(rf, "titulo")), PyStr(<<>>))
        desc_rec == Or(Or(Get(res, "description"), Get(rf, "descricao")), PyStr(<<>>))
        formato == Or(Or(Get(res, "format"), Get(rf, "formato")), PyStr(<<>>))
        tipo == Or(Get(res, "tipo"), Get(rf, "tipo"))
        data_cat == Or(Or(Get(rf, "dataCatalogacao"), Get(res, "created")), PyStr(<<>>))
        data_ult == Or(Or(Get(rf, "dataUltimaAtualizacaoArquivo"), Get(res, "last_modified")),
                       PyStr(<<>>))
        tamanho == Or(Or(Get(res, "size"), Get(rf, "tamanho")), PyNum(0))
    IN  [dataUltimaAtualizacaoArquivo |-> Or(data_ult, PyStr(<<>>)),
         dataCatalogacao |-> Or(data_cat, PyStr(<<>>)),
         link |-> link,
         idConjuntoDados |-> dataset_id,
         descricao |-> Or(desc_rec, PyStr(<<>>)),
         titulo |-> Or(titulo_rec, PyStr(<<>>)),
         formato |-> Or(formato, PyStr(<<>>)),
         tipo |-> tipo,
         numOrdem |-> PyNone,
         nomeArquivo |-> PyNone,
         quantidadeDownloads |-> PyNone,
         tamanho |-> IF tamanho # PyNone THEN tamanho ELSE PyNum(0),
         id |-> Get(res, "id")]

\* lines 185-186: the container rf of a resource, recursoForm or else
\* recursoApiView or else the resource itself
ContainerOf(res) == Or(Or(Get(res, "recursoForm"), Get(res, "recursoApiView")), PyDict(res))

\* lines 143-144: the name of the organization of a detail
OrgName5k(org) ==
    IF org.kind # "dict" THEN RaisedVal
    ELSE Val(Strip(Or(Or(Or(Get(org.d, "display_name"), Get(org.d, "title")), Get(org.d, "name")),
                      PyStr(<<>>)).s))

\* lines 137-235: _detail_to_row_5k(detail), for the columns that depend on
\* the keys the model follows (the other columns are constants and copies of
\* further scalars of detail).  The resources of the model are objects; an
\* organization or a container that is not one makes .get raise.
DetailToRow5k(d) ==
    LET dataset_id == Or(d.id, PyStr(<<>>))
        name == StripOr(d.name)
        title == StripOr(d.title)
        org == Or(d.organization, PyDict(<<>>))
        org_name == OrgName5k(org)
        resources == Or(d.resources, PyList(<<>>)).l
        recursos_list == [i \in 1..Len(resources) |->
                            RecursoTo5k(resources[i].d, ContainerOf(resources[i].d).d, dataset_id)]
        first_ult == IF recursos_list # <<>> THEN recursos_list[1].dataUltimaAtualizacaoArquivo
                     ELSE PyNone
    IN  IF org_name.raised \/ \E i \in 1..Len(resources) : ContainerOf(resources[i].d).kind # "dict"
        THEN RaisedVal
        ELSE Val([id |-> dataset_id,
                  titulo |-> IF title # <<>> THEN title
                             ELSE IF name # <<>> THEN name ELSE <<"Sem titulo">>,
                  nome |-> name,
                  organizacao |-> org_name.v,
                  licenca |-> Strip(Or(d.license_id, PyStr(<<"notspecified">>)).s),
                  recursos |-> recursos_list,
                  dataUltimaAtualizacaoArquivo |->
                      IF Truthy(first_ult) /\ ~Contains(StrOf(first_ult), <<"Indisponivel">>)
                      THEN first_ult ELSE PyStr(<<"Indisponivel">>)])

\* The organizations given: none, a text, and objects in which each of title,
\* display_name and name is missing, empty or a name of its own
OrgTexts(k) ==
    {PyStr(<<>>), IF k = "title" THEN PyStr(<<"T">>)
                  ELSE IF k = "display_name" THEN PyStr(<<"D">>) ELSE PyStr(<<"N">>)}
Organizations ==
    {PyNone, PyStr(<<"O">>)} \cup
    UNION {{PyDict(f) : f \in {g \in [S -> {PyStr(<<>>), PyStr(<<"T">>), PyStr(<<"D">>), PyStr(<<"N">>)}] :
                                  \A k \in S : g[k] \in OrgTexts(k)}} :
            S \in SUBSET {"title", "display_name", "name"}}

\* The resources given: with fields of their own, in recursoApiView, in
\* recursoForm, or in several of them
ScrapedResources ==
    { PyDict(<<>>),
      PyDict([id |-> PyStr(<<"r1">>), name |-> PyStr(<<"n">>), url |-> PyStr(<<"u">>),
              created |-> PyStr(<<"c">>), size |-> PyNum(7)]),
      PyDict([id |-> PyStr(<<"r2">>), titulo |-> PyStr(<<"t">>), link |-> PyStr(<<"l">>)]),
      PyDict([id |-> PyStr(<<"r3">>), recursoApiView |-> PyDict([titulo |-> PyStr(<<"v">>)])]),
      PyDict([id |-> PyStr(<<"r4">>), recursoForm |-> PyDict([titulo |-> PyStr(<<"f">>)])]),
      PyDict([id |-> PyStr(<<"r5">>), recursoApiView |-> PyDict([titulo |-> PyStr(<<"v">>)]),
              recursoForm |-> PyDict([formato |-> PyStr(<<"f">>)])]),
      PyDict([id |-> PyStr(<<"r6">>), created |-> PyStr(<<"c">>),
              recursoForm |-> PyDict([dataCatalogacao |-> PyStr(<<"f">>)])]),
      PyDict([id |-> PyStr(<<"r7">>), name |-> PyStr(<<"n">>),
              recursoApiView |-> PyDict([titulo |-> PyStr(<<"v">>), tipo |-> PyStr(<<"y">>)])]) }

\* The details given to _detail_to_row_5k
Details ==
    { [id |-> PyStr(<<"d1">>), name |-> PyStr(<<" ", "a">>), title |-> t, organization |-> o,
       license_id |-> PyNone, resources |-> r] :
        t \in {PyNone, PyStr(<<"A">>)}, o \in Organizations,
        r \in {PyNone, PyList(<<>>)} \cup {PyList(<<x>>) : x \in ScrapedResources} }

NoDetail == [id |-> PyNone, name |-> PyNone, title |-> PyNone, organization |-> PyNone,
             license_id |-> PyNone, resources |-> PyNone]

ScrapeInit ==
    /\ detail = NoDetail
    /\ row_5k = [called |-> FALSE, raised |-> FALSE, v |-> PyNone]
    /\ tamanho_pagina = 0
    /\ max_registros = PyNone
    /\ collected = <<>>
    /\ offset = 0
    /\ requested = <<>>
    /\ pages = <<>>
    /\ scrape_at = "idle"

\* _detail_to_row_5k(d) is called.
DetailToRow5kCall(d) ==
    /\ ~row_5k.called
    /\ detail' = d
    /\ row_5k' = [called |-> TRUE, raised |-> DetailToRow5k(d).raised, v |-> DetailToRow5k(d).v]
    /\ UNCHANGED <<tamanho_pagina, max_registros, collected, offset, requested, pages, scrape_at>>
    /\ UNCHANGED NotScrape

\* lines 280-298: buscar_detalhes(output_csv, base_url, tamanho_pagina,
\* max_registros, ...) is called and enters its loop.
BuscarDetalhes(size, limit) ==
    /\ scrape_at = "idle"
    /\ tamanho_pagina' = size
    /\ max_registros' = limit
    /\ collected' = <<>>
    /\ offset' = 0
    /\ scrape_at' = "loop"
    /\ UNCHANGED <<detail, row_5k, requested, pages>>
    /\ UNCHANGED NotScrape

\* The k-th dataset of the portal, as the search answers it
Registro(k) == [id |-> PyNum(k), name |-> PyStr(<<"n">>), organizationTitle |-> PyStr(<<"T", " ">>)]

\* min(a, b)
Min(a, b) == IF a < b THEN a ELSE b

\* lines 300-325: one turn of the loop.  With max_registros rows or more the
\* loop ends; else a page is requested, and the request fails (answer -1) or
\* is answered with a page of answer registros, whose rows are appended; the
\* loop ends after a failed request, an empty page and a page shorter than
\* requested.
FetchBuscarPage(answer) ==
    LET page_size == IF max_registros # PyNone
                     THEN Min(tamanho_pagina, max_registros.n - Len(collected))
                     ELSE tamanho_pagina
        registros == [i \in 1..answer |-> Registro(offset + i)]
    IN  /\ scrape_at = "loop"
        /\ IF max_registros # PyNone /\ Len(collected) >= max_registros.n
           THEN /\ scrape_at' = "done"
                /\ UNCHANGED <<collected, offset, requested, pages>>
           ELSE /\ Len(collected) + answer <= MaxRows
                /\ requested' = Append(requested, [page_size |-> page_size, held |-> Len(collected)])
                /\ pages' = Append(pages, answer)
                /\ IF answer = -1
                   THEN /\ scrape_at' = "done"
                        /\ UNCHANGED <<collected, offset>>
                   ELSE /\ collected' = collected \o
                              [i \in 1..answer |->
                                  DetailToRow5k(NormalizeBuscarToDetail(registros[i])).v]
                        /\ scrape_at' = IF answer = 0 \/ answer < page_size THEN "done" ELSE "loop"
                        /\ offset' = IF answer = 0 \/ answer < page_size THEN offset
                                     ELSE offset + answer
        /\ UNCHANGED <<detail, row_5k, tamanho_pagina, max_registros>>
        /\ UNCHANGED NotScrape

Init == VocabInit /\ ResolveInit /\ DateInit /\ BuildInit /\ ValidateInit /\ BatchInit /\ ScrapeInit

Next ==
    \E t \in Threads :
        \/ \E c \in CallVocabs, force \in BOOLEAN : Call(t, "load_vocab", c, force, <<>>)
        \/ \E c \in CallVocabs, v \in CallValues : Call(t, "convert_to_iri", c, FALSE, v)
        \/ Check(t)
        \/ LocalRead(t, {"error", "ok"})
        \/ RemoteFetch(t, {"timeout", "ok"})
        \/ Store(t)
        \/ Return(t)

Spec == Init /\ [][Next]_vars

\* One thread, every answer of the environment, a category with a license
\* table and an unknown one: load_vocab on its own.
LoadVocabs == {"freq", "vcr-lu", "nope"}

NextLoad ==
    \/ \E c \in LoadVocabs, force \in BOOLEAN : Call("t1", "load_vocab", c, force, <<>>)
    \/ \E c \in LoadVocabs, v \in CallValues : Call("t1", "convert_to_iri", c, FALSE, v)
    \/ Check("t1")
    \/ LocalRead("t1", LocalOutcomes)
    \/ RemoteFetch("t1", RemoteOutcomes)
    \/ Store("t1")
    \/ Return("t1")

SpecLoad == Init /\ [][NextLoad]_vars

NextResolve ==
    \/ \E parts \in CsvLines : AddLine(parts)
    \/ \E value \in ResolveValues, c \in ResolveVocabs : Resolve(value, c)

SpecResolve == Init /\ [][NextResolve]_vars

NextDate ==
    \E arg \in DateArguments, padYear \in BOOLEAN : NormalizeDateCall(arg, padYear)

SpecDate == Init /\ [][NextDate]_vars

\* A record from a caller or from a CSV row, and one build of its graph with
\* every vocabulary table loaded or with none.
NextBuild ==
    \/ \E k \in DataKeys : \E v \in Values(k) : SetKey(k, v)
    \/ \E k \in ExtraKeys : \E v \in Values(k) : AddExtra(k, v)
    \/ \E c \in BasicColumns \cup FlagColumns \cup JsonColumns : \E v \in ColumnValues(c) : SetColumn(c, v)
    \/ CsvRowToDictCall
    \/ \E avail \in {KnownVocabs, {}} : ApiToRdfCall(avail, FALSE)

\* The candidate directories given to _get_shacl_path, and what loading
\* each shapes file and each ontology file does
PossiblePaths == [1..MaxPaths -> Directories]
ShapesLoads == [{ShapesFiles[i] : i \in 1..Len(ShapesFiles)} -> {"loads", "raises"}]
OntologyLoads == [{OntologyFiles[i] : i \in 1..Len(OntologyFiles)} -> {"missing", "loads", "raises"}]
AllShapes == [state |-> "dir", files |-> {ShapesFiles[i] : i \in 1..Len(ShapesFiles)}]

\* How many nodes a report graph has, and how many lines a report text has
MaxNodes == 2
MaxTextLines == 2

\* The report graphs: up to MaxNodes different nodes, in any order
ReportGraphs ==
    {g \in UNION {[1..n -> ReportNodes] : n \in 0..MaxNodes} :
        \A i, j \in DOMAIN g : i # j => g[i] # g[j]}

\* The lines of the report texts
ReportLines ==
    { <<"V", "i", "o", "l", "a", "t", "i", "o", "n">>,
      <<" ", "E", "R", "R", "O", "R", " ">>,
      <<"W", "a", "r", "n", "i", "n", "g">>,
      <<"w", "a", "r", "n", "i", "n", "g", " ", "e", "r", "r", "o", "r">>,
      <<"o", "k">>,
      <<" ">>,
      <<>> }

\* '\n'.join(lines)
RECURSIVE Join(_)
Join(lines) ==
    IF lines = <<>> THEN <<>>
    ELSE IF Len(lines) = 1 THEN lines[1]
    ELSE lines[1] \o <<"\n">> \o Join(Tail(lines))

\* The report texts: None, or up to MaxTextLines lines
ReportTexts ==
    {PyNone} \cup {PyStr(Join(l)) : l \in UNION {[1..n -> ReportLines] : n \in 1..MaxTextLines}}

\* What pyshacl.validate does
Raising == [raises |-> TRUE, conforms |-> FALSE, v_graph |-> <<>>, v_text |-> PyNone]
EngineOutcomes ==
    {Raising} \cup
    {[raises |-> FALSE, conforms |-> c, v_graph |-> g, v_text |-> t] :
        c \in BOOLEAN, g \in ReportGraphs, t \in ReportTexts}

\* Outcomes with a one-node report graph or a one-line report text
PlainOutcomes ==
    {o \in EngineOutcomes : Len(o.v_graph) + (IF Truthy(o.v_text) THEN Len(Split(o.v_text.s, "\n")) ELSE 0) <= 1}

\* One call of validate_rdf, with every content, file name and parse outcome
NextValidate ==
    \/ at = "idle" /\ \E file \in Files, name \in FileNames : ValidateRdfCall(file, name)
    \/ ParseFirst
    \/ ParseNext
    \/ at = "check" /\ \E dir \in {AllShapes, [state |-> "absent", files |-> {}]} :
                            GetShaclPathCall([i \in 1..MaxPaths |-> dir])
    \/ at = "shapes" /\ LoadShapes([f \in AllShapes.files |-> "loads"])
    \/ at = "ontology" /\ LoadOntology([f \in {"imports.ttl", "mdr_imports.ttl"} |-> "loads"])
    \/ at = "engine" /\ PyshaclValidate(Raising)

SpecValidate == Init /\ [][NextValidate]_vars

\* The contents that parse in every format or in none, UTF-8 or not
SameInAll == {file \in Files : file.text = <<>> /\ \E o \in ParseOutcomes : \A f \in DOMAIN file.parses : file.parses[f] = o}

\* One call of validate_rdf, with every state of the SHACL directories and
\* every outcome of loading their files
NextShacl ==
    \/ at = "idle" /\ \E file \in SameInAll : ValidateRdfCall(file, PyNone)
    \/ ParseFirst
    \/ ParseNext
    \/ at = "check" /\ \E paths \in PossiblePaths : GetShaclPathCall(paths)
    \/ at = "shapes" /\ \E loads \in ShapesLoads : LoadShapes(loads)
    \/ at = "ontology" /\ \E loads \in OntologyLoads : LoadOntology(loads)
    \/ at = "engine" /\ \E outcome \in PlainOutcomes : PyshaclValidate(outcome)

SpecShacl == Init /\ [][NextShacl]_vars

\* One call of validate_rdf on a content that parses, with the shapes files
\* in place, and every outcome of pyshacl.validate
NextReport ==
    \/ at = "idle" /\ \E file \in SameInAll : file.utf8 /\ ValidateRdfCall(file, PyNone)
    \/ ParseFirst
    \/ ParseNext
    \/ at = "check" /\ GetShaclPathCall([i \in 1..MaxPaths |-> AllShapes])
    \/ at = "shapes" /\ LoadShapes([f \in AllShapes.files |-> "loads"])
    \/ at = "ontology" /\ \E loads \in OntologyLoads : LoadOntology(loads)
    \/ at = "engine" /\ \E outcome \in EngineOutcomes : PyshaclValidate(outcome)

SpecReport == Init /\ [][NextReport]_vars

\* One call of _detail_to_row_5k with every detail, or one call of
\* buscar_detalhes with every page size and limit, answered with failures and
\* with pages of any length up to MaxPage
NextScrape ==
    \/ scrape_at = "idle" /\ \E d \in Details : DetailToRow5kCall(d)
    \/ ~row_5k.called /\ \E size \in 1..MaxPage, limit \in {PyNone} \cup {PyNum(n) : n \in 0..MaxRows} :
            BuscarDetalhes(size, limit)
    \/ \E answer \in -1..MaxPage : FetchBuscarPage(answer)

SpecScrape == Init /\ [][NextScrape]_vars

\* One call of process_csv, with every number of rows up to MaxRecords, every
\* limit and every outcome for each record
Limits == {PyNone} \cup {PyNum(n) : n \in -1..MaxRecords}
NextBatch ==
    \/ \E rows \in 0..MaxRecords, limit \in Limits : ProcessCsv(rows, limit)
    \/ \E outcome \in RecordOutcomes : ProcessDataset(outcome)
    \/ \E written \in BOOLEAN : SaveResults(written)

\* The loop is sequential code: a turn that can be taken is taken, and the
\* statements after the loop run once it has ended.
SpecBatch ==
    /\ Init
    /\ [][NextBatch]_vars
    /\ WF_vars(\E outcome \in RecordOutcomes : ProcessDataset(outcome))
    /\ WF_vars(\E written \in BOOLEAN : SaveResults(written))

SpecBuild == Init /\ [][NextBuild]_vars

\* Two calls of api_to_rdf with the same caller's record, made of the keys
\* whose values go through a vocabulary and of the dataset's id
RebuildKeys == VocabKeys \cup LicenseKeys \cup ThemeKeys \cup ResourceKeys \cup {"id", "extras"}

NextRebuild ==
    \/ \E k \in RebuildKeys : \E v \in Values(k) : SetKey(k, v)
    \/ \E k \in VocabKeys : \E v \in Values(k) : AddExtra(k, v)
    \/ \E avail \in {KnownVocabs, {}} : ApiToRdfRepeated(avail, FALSE)

SpecRebuild == Init /\ [][NextRebuild]_vars

\* Calls of api_to_rdf with a caller's record made of its id and its resource
\* lists
NextResources ==
    \/ \E k \in ResourceKeys \cup {"id"} : \E v \in Values(k) : SetKey(k, v)
    \/ \E avail \in {KnownVocabs, {}} : ApiToRdfCall(avail, FALSE)

SpecResources == Init /\ [][NextResources]_vars

------------------------------------------------------------------------------
(* Claims about the vocabulary cache *)

Loading(t) == pc[t] \in {"local", "remote", "store"}

\* C1 (as claimed): with no forced reload of a category, its table load runs
\* at most once: no load of the category starts after an earlier load of it
\* has finished, also when that earlier load gave an empty table.
C1_LoadAtMostOnce ==
    \A t \in Threads :
        (out[t].path = "load" /\ call[t].vocab_name \notin hist.forced)
            => ~out[t].loadedBefore

\* C2 (as claimed): the first access to a category is serialized: two threads
\* are never both inside the (unforced) load of the same category.
C2_LoadSerialized ==
    \A t1, t2 \in Threads :
        (t1 # t2 /\ Loading(t1) /\ Loading(t2)
           /\ ~call[t1].force_reload /\ ~call[t2].force_reload)
            => call[t1].vocab_name # call[t2].vocab_name

\* C3 (as claimed): once a category's table is cached, every later unforced
\* resolve of the category (one that finds it in the cache) is answered from
\* that same table, as long as no forced reload has replaced it.
C3_CachedTableStable ==
    \A t \in Threads :
        (pc[t] = "done" /\ out[t].path = "hit"
           /\ call[t].vocab_name \notin hist.forcedStore)
            => ret[t].table = hist.first[call[t].vocab_name]

\* C4: load_vocab fetches remotely exactly when the category is known and the
\* local table is missing, unreadable or empty; it returns the local table if
\* that is non-empty, else the remote table if that is non-empty, else an
\* empty table (read error, fetch error, timeout, unknown category), and in
\* each of these cases it returns normally.
C4_LoadOrder ==
    \A t \in Threads :
        (pc[t] = "done" /\ out[t].path = "load") =>
            LET c == call[t].vocab_name
                o == out[t]
                fetched == o.remote \in RemoteOutcomes
            IN  /\ fetched <=> o.local \in {"missing", "error", "empty"}
                /\ c \notin KnownVocabs => ~fetched
                /\ ret[t].table =
                     IF o.local = "ok" THEN ParseCsv(LocalCsv(c))
                     ELSE IF o.remote = "ok" THEN ParseCsv(RemoteCsv(c))
                     ELSE EmptyTable

\* C4 witness: a load whose local read raised and whose fetch succeeded has
\* returned the remote table.
C4_Witness ==
    \E t \in Threads :
        /\ pc[t] = "done" /\ out[t].path = "load"
        /\ out[t].local = "error" /\ out[t].remote = "ok"
        /\ ret[t].table = ParseCsv(RemoteCsv(call[t].vocab_name))
        /\ ret[t].table # EmptyTable

------------------------------------------------------------------------------
(* Claims about resolution *)

Table == ParseCsv(csv_lines)
ThemeSlug(s) == Replace(Replace(NoAccents(Lower(s)), " ", "-"), "_", "-")
Stripped == Strip(resolved.value)

\* C5 (as claimed): the trimmed value is looked up as written first: when it
\* is a key of the table, the identifier bound to it is the result.
C5_VerbatimFirst ==
    (resolved.done /\ resolved.value # <<>> /\ Stripped \in DOMAIN Table)
        => resolved.iri = Some(Table[Stripped])

\* C5 (amended): the upper-cased form of the trimmed value is looked up
\* first and the value as written only when that misses: when the upper-cased
\* form is a key of the table the identifier bound to it is the result, also
\* when the value as written is bound to another identifier.
C5_UpperFirst ==
    (resolved.done /\ resolved.value # <<>> /\ Upper(Stripped) \in DOMAIN Table)
        => resolved.iri = Some(Table[Upper(Stripped)])

\* C5 witness: the value as written and its upper-cased form are bound to
\* different identifiers, and the resolution gave the latter's.
C5_Witness ==
    /\ resolved.done
    /\ Stripped \in DOMAIN Table /\ Upper(Stripped) \in DOMAIN Table
    /\ Table[Stripped] # Table[Upper(Stripped)]
    /\ resolved.iri = Some(Table[Upper(Stripped)])

\* C6: for every parsed table, category and value, the value and its
\* upper-cased form resolve to the same identifier, or both to none.
C6_CaseInsensitive ==
    resolved.done => resolved.iri = resolved.iriOfUpper

\* C6 witness: two lines whose labels differ only in case bind different
\* identifiers, and a lower-case value and its upper-cased form have both
\* resolved to one identifier.
C6_Witness ==
    /\ resolved.done
    /\ Len(csv_lines) = 2
    /\ Len(csv_lines[1]) = 2 /\ Len(csv_lines[2]) = 2
    /\ csv_lines[1][1] # csv_lines[2][1]
    /\ csv_lines[1][2] # csv_lines[2][2]
    /\ Upper(csv_lines[1][2]) = Upper(csv_lines[2][2])
    /\ resolved.value # Upper(resolved.value)
    /\ resolved.iri.some
    /\ resolved.iri = resolved.iriOfUpper

\* C7 (as claimed): a value with some text in it, resolved against the theme
\* category, never gives none, whatever the theme table holds (also nothing,
\* as after a failed load): a value the lookups do not find gives the base
\* location followed by its slug.
C7_ThemeNeverNone ==
    (resolved.done /\ resolved.vocab_name = "themes" /\ Stripped # <<>>) =>
        /\ resolved.iri.some
        /\ (DOMAIN Table) \cap {Upper(Stripped), Stripped, ThemeSlug(Stripped)} = {}
             => resolved.iri = Some(ThemeBase \o ThemeSlug(Stripped))

------------------------------------------------------------------------------
(* Claims about normalize_date *)

\* The date a text of DateShapes writes is a date of the calendar.
RealDate(y, m, d) == y >= 1 /\ m \in 1..12 /\ d >= 1 /\ d <= DaysInMonth(y, m)

\* C8 (as claimed): normalize_date gives none for an argument that is not a
\* text, holds a marker of an unavailable value or writes no date of the
\* calendar, and otherwise gives the date written, as YYYY-MM-DD.
C8_NormalizeDate ==
    date_out.called =>
        date_out.result =
            IF date_in.shape \in DateShapes \ {"yyyy-mm-dd NA"}
                 /\ RealDate(date_in.y, date_in.m, date_in.d)
            THEN Some(Padded(date_in.y, 4) \o <<"-">> \o Padded(date_in.m, 2)
                        \o <<"-">> \o Padded(date_in.d, 2))
            ELSE None

------------------------------------------------------------------------------
(* Claims about api_to_rdf and csv_row_to_dict *)

\* The value of the first entry of the record's extras whose key is k, None
\* when the record has no such entry.
ExtraOf(k) ==
    LET extras == GetDef(record, "extras", PyList(<<>>))
    IN  IF extras.kind = "list" /\ \A i \in DOMAIN extras.l : extras.l[i].kind = "dict"
        THEN ScanExtras(extras.l, k, 1).v
        ELSE PyNone

\* The canonical attributes with several sources that the graph shows as
\* they are: the legacy key, the current key, the key in the extras ("" where
\* the attribute has no such source) and the predicate.
Attributes ==
    { [legacy |-> "titulo", current |-> "title", extra |-> "", predicate |-> "dct:title"],
      [legacy |-> "descricao", current |-> "notes", extra |-> "", predicate |-> "dct:description"],
      [legacy |-> "versao", current |-> "version", extra |-> "", predicate |-> "dcat:version"],
      [legacy |-> "periodicidade", current |-> "", extra |-> "periodicidade",
       predicate |-> "dct:accrualPeriodicity"],
      [legacy |-> "coberturaEspacial", current |-> "", extra |-> "coberturaEspacial",
       predicate |-> "dct:spatial"],
      [legacy |-> "granularidadeEspacial", current |-> "", extra |-> "granularidadeEspacial",
       predicate |-> "dcat:spatialResolutionInMeters"] }

\* The value the precedence legacy key, current key, extras chooses for an
\* attribute: the first of the three that is not empty, None when all are.
Chosen(a) ==
    Or(Get(record, a.legacy),
       Or(IF a.current = "" THEN PyNone ELSE Get(record, a.current),
          IF a.extra = "" THEN PyNone ELSE ExtraOf(a.extra)))

\* The subjects the graph types as dataset, and the objects the graph gives
\* a predicate of theirs
DatasetNodes ==
    {tr[1] : tr \in {x \in rdf.triples : x[2] = "rdf:type" /\ x[3] = Iri(<<"dcat:Dataset">>)}}
Objects(predicate) ==
    {tr[3] : tr \in {x \in rdf.triples : x[1] \in DatasetNodes /\ x[2] = predicate}}

\* C9 (as claimed): in the graph of a record whose values are texts, each
\* attribute with several sources has the value chosen by the precedence
\* legacy key, current key, extras entry, and has no triple only when none of
\* the three gives a value; so a value only the extras give is used also when
\* the top-level key is there and empty.
C9_ExtrasPrecedence ==
    (rdf.built /\ ~rdf.raised) =>
        \A a \in Attributes :
            LET v == Chosen(a)
            IN  /\ ~Truthy(v) => Objects(a.predicate) = {}
                /\ (Truthy(v) /\ v.kind = "str" /\ v # PyStr(<<"-">>)) =>
                      /\ Objects(a.predicate) # {}
                      /\ \A o \in Objects(a.predicate) : o.t = "lit" => o.v = v

\* The value a flag of the record is given: the top-level one, or else the
\* one in the extras.
FlagOf(k) == IF Get(record, k) # PyNone THEN Get(record, k) ELSE ExtraOf(k)
FlagPredicate(k) == IF k = "dadosRacaEtnia" THEN "dcatbr:dadosRacaEtnia" ELSE "dcatbr:dadosGenero"
BooleanLit(b) == Lit(PyBool(b), "", "xsd:boolean")
IsTrueFalseWord(s) == Lower(s) \in {<<"t", "r", "u", "e">>, <<"f", "a", "l", "s", "e">>}

\* C10 (as claimed): of a flag, a native boolean is emitted as it is, the
\* texts "true" and "false" in any letter case as the booleans true and
\* false, and any other text that is not empty is never emitted as the
\* boolean false -- in the graph of a caller's record and in the graph of a
\* record made from a CSV row with that text in the flag's column.
C10_FlagNotCoerced ==
    (rdf.built /\ ~rdf.raised) =>
        \A k \in FlagKeys :
            LET v == IF csv_row = <<>> THEN FlagOf(k) ELSE GetDef(csv_row, k, PyNone)
            IN  /\ (csv_row = <<>> /\ v.kind = "bool") => Objects(FlagPredicate(k)) = {BooleanLit(v.b)}
                /\ (v.kind = "str" /\ IsTrueFalseWord(v.s)) =>
                      Objects(FlagPredicate(k)) = {BooleanLit(Lower(v.s) = <<"t", "r", "u", "e">>)}
                /\ (v.kind = "str" /\ v.s # <<>> /\ ~IsTrueFalseWord(v.s)) =>
                      BooleanLit(FALSE) \notin Objects(FlagPredicate(k))

\* The keys of a record that hold its nested parts, its license and its dates
NestedKeys ==
    {"organizacao", "organization", "tags"} \cup ThemeKeys \cup ResourceKeys
    \cup LicenseKeys \cup DateKeys

\* C11 (as claimed): building the graph of a record never raises, whatever
\* the shape of its organization, tags, themes, resources, resource view/form
\* containers, license and dates (absent, null, a text or a number where an
\* object, a list or a text is expected) -- for a caller's record with only
\* such keys and for a record made from a CSV row.
C11_NeverRaises ==
    (rdf.built /\ (csv_row # <<>> \/ DOMAIN record \subseteq NestedKeys)) => ~rdf.raised

\* C12 (as claimed): in the record made from a CSV row, a field the row does
\* not have is not in the record (so none is there with a defaulted empty
\* text).
C12_AbsentStaysAbsent ==
    (csv_row # <<>> /\ record # <<>>) =>
        DOMAIN record \subseteq DOMAIN csv_row

\* The record's name-or-id: its name (legacy key, then current key) when it
\* has one that is not empty, its id otherwise.
NameOrId == Or(Get(record, "nome"), Or(Get(record, "name"), Get(record, "id")))

\* C13 (as claimed): the dataset's IRI is the base location, "/" and the
\* record's name when it has a name, its id otherwise: a record with an id
\* and no name, or an empty one, gets base/id.
C13_DatasetIri ==
    (rdf.built /\ ~rdf.raised /\ Truthy(NameOrId)) =>
        DatasetNodes = {Iri(BaseUrl \o <<"/">> \o StrOf(NameOrId))}

\* The resources of the record: its legacy list when that is not empty, its
\* current list otherwise; and the distribution nodes of the graph.
RecordResources ==
    LET recursos == Or(Get(record, "recursos"), Get(record, "resources"))
    IN  IF recursos.kind = "list" THEN {recursos.l[i] : i \in DOMAIN recursos.l} ELSE {}
DistributionNodes == {tr[3] : tr \in {x \in rdf.triples : x[2] = "dcat:distribution"}}

\* The identifier a resource has, none when the key is missing or null
HasId(resource) == resource.kind = "dict" /\ Get(resource.d, "id") # PyNone

\* C14 (as claimed): the IRI of a distribution is the dataset's IRI,
\* "/resource/" and the resource's identifier, and ends in "/resource/unknown"
\* when the resource has none, its key missing or its value null.
C14_DistributionIri ==
    (rdf.built /\ ~rdf.raised) =>
        \A dataset \in DatasetNodes :
            DistributionNodes =
                {Iri(dataset.v \o <<"/resource/">> \o
                     (IF HasId(r) THEN StrOf(r.d["id"]) ELSE <<"unknown">>)) : r \in RecordResources}

\* The predicates of the vocabulary-bound properties: periodicity, legal
\* basis, license, theme, format (with its media type) and resource type
BoundPredicates ==
    {"dct:accrualPeriodicity", "dct:accessRights", "dct:license", "dcat:theme",
     "dct:format", "dcat:mediaType", "dct:type"}

\* The license the record gives, which is used as it is when it is an address
LicenseOf == Or(Get(record, "licenca"), Get(record, "license_id"))

\* The triples of the graph that give a vocabulary-bound property an
\* identifier the vocabulary resolved its value to
ResolvedTriples ==
    {tr \in rdf.triples :
        /\ tr[2] \in BoundPredicates
        /\ tr[3].t = "iri"
        /\ ~(tr[2] = "dct:license" /\ tr[3] = Iri(StrOf(LicenseOf)))}

\* C15 (as claimed): every identifier a vocabulary-bound property was
\* resolved to is the subject of at least one rdf:type triple and of a
\* skos:inScheme triple.
C15_ResolvedDescribed ==
    (rdf.built /\ ~rdf.raised) =>
        \A tr \in ResolvedTriples :
            /\ \E x \in rdf.triples : x[1] = tr[3] /\ x[2] = "rdf:type"
            /\ \E x \in rdf.triples : x[1] = tr[3] /\ x[2] = "skos:inScheme"

\* A text that is present and that the vocabulary of a category, as loaded
\* for the build, resolves to no identifier
Unresolved(v, vocab_name) ==
    /\ v.kind = "str" /\ v.s # <<>>
    /\ ~ConvertToIri(v.s, vocab_name, EnvOf(rdf.tables, FALSE).tables[vocab_name]).some

\* The graph gives some subject the predicate with the raw value as a plain
\* literal
HasPlain(predicate, v) == \E x \in rdf.triples : x[2] = predicate /\ x[3] = Plain(v)

\* The format and the type a resource gives, its own or its containers'
FormatOf(r) == ResourceField(r.d, Or(Get(r.d, "format"), Get(r.d, "formato")), "formato").v
TypeOf(r) == ResourceField(r.d, Get(r.d, "tipo"), "tipo").v

\* C16 (as claimed): a periodicity, a legal basis, a format or a resource
\* type that is present and that the vocabulary does not resolve is in the
\* graph as its predicate with the raw value as a plain literal; an
\* unresolved license alone gives no triple.
C16_LiteralFallback ==
    (rdf.built /\ ~rdf.raised) =>
        /\ LET v == OrExtra(record, "periodicidade").v
           IN  Unresolved(v, "freq") => HasPlain("dct:accrualPeriodicity", v)
        /\ LET v == OrExtra(record, "observanciaLegal").v
           IN  Unresolved(v, "sei") => HasPlain("dct:accessRights", v)
        /\ \A r \in RecordResources :
              /\ Unresolved(FormatOf(r), "formato") => HasPlain("dct:format", FormatOf(r))
              /\ Unresolved(TypeOf(r), "tipo-recurso") => HasPlain("dct:type", TypeOf(r))
        /\ (Unresolved(LicenseOf, "vcr-lu") /\ LicenseOf.s # Address) =>
              ~\E x \in rdf.triples : x[2] = "dct:license"

\* The size a resource gives, its own or its containers', and the resources
\* of the record that give a text as their size
SizeOf(r) == ResourceField(r.d, Or(Get(r.d, "size"), Get(r.d, "tamanho")), "tamanho").v
Sized == {r \in RecordResources : SizeOf(r).kind = "str" /\ SizeOf(r).s # <<>>}

\* The text is one float() converts, and the number it converts to
ParsesToNumber(s) == IsNumberText(s)
ParsesAboveZero(s) == IsNumberText(s) /\ FloatIsPositive(s)
NumberOf(s) == Num(Strip(s), 1, Len(Strip(s)))

\* The byte-size triples of the graph, as pairs of a distribution and a size
ByteSizes == {<<x[1], x[3]>> : x \in {y \in rdf.triples : y[2] = "dcat:byteSize"}}
NodeOf(r) ==
    Iri((CHOOSE dataset \in DatasetNodes : TRUE).v \o <<"/resource/">>
        \o StrOf(GetDef(r.d, "id", PyStr(<<"unknown">>))))
Decimal(s) == Lit(PyNum(NumberOf(s)), "", "xsd:decimal")

\* C17 (as claimed): the byte size of a resource is a typed decimal exactly
\* when its value parses to a number above zero; every other value is emitted
\* as a plain literal, except the raw value "0", which gives no triple.
C17_LiteralUnlessZero ==
    (rdf.built /\ ~rdf.raised) =>
        ByteSizes =
            {<<NodeOf(r), Decimal(SizeOf(r).s)>> : r \in {q \in Sized : ParsesAboveZero(SizeOf(q).s)}}
            \cup {<<NodeOf(r), Plain(SizeOf(r))>> :
                     r \in {q \in Sized : ~ParsesAboveZero(SizeOf(q).s) /\ SizeOf(q).s # <<"0">>}}

\* C17 (corrected): the byte size of a resource is a typed decimal exactly
\* when its value parses to a number above zero ("1500" gives one decimal
\* triple valued 1500); a value that parses to a number not above zero ("0",
\* "-5") gives no triple; a value that does not parse to a number is emitted
\* as a plain literal.
C17_ByteSize ==
    (rdf.built /\ ~rdf.raised) =>
        ByteSizes =
            {<<NodeOf(r), Decimal(SizeOf(r).s)>> : r \in {q \in Sized : ParsesAboveZero(SizeOf(q).s)}}
            \cup {<<NodeOf(r), Plain(SizeOf(r))>> : r \in {q \in Sized : ~ParsesToNumber(SizeOf(q).s)}}

\* A graph was built of a resource with the size "-5", without a byte size.
C17_Witness ==
    /\ rdf.built /\ ~rdf.raised
    /\ \E r \in Sized : SizeOf(r).s = <<"-", "5">>
    /\ ByteSizes = {}

\* C18 (as claimed): two builds from the same record give the same set of
\* triples (blank nodes taken by their role), whatever the state of the
\* vocabulary cache and the outcome of the vocabulary loads at each build.
C18_SameGraph ==
    (rdf.built /\ rdf_again.built) =>
        /\ rdf_again.raised = rdf.raised
        /\ rdf_again.triples = rdf.triples

\* The record has no resource list: each of the two keys is missing or
\* holds an empty list.
NoResourceList ==
    \A k \in ResourceKeys : k \notin DOMAIN record \/ record[k] = PyList(<<>>)

\* The subjects the graph types as distribution
TypedDistributions ==
    {tr[1] : tr \in {x \in rdf.triples : x[2] = "rdf:type" /\ x[3] = Iri(<<"dcat:Distribution">>)}}

\* C19: the graph built of a record with no resource list has exactly one
\* subject typed as dataset, no dcat:distribution link and no subject typed
\* as distribution.
C19_NoResources ==
    (rdf.built /\ ~rdf.raised /\ NoResourceList) =>
        /\ Cardinality(DatasetNodes) = 1
        /\ DistributionNodes = {}
        /\ TypedDistributions = {}

\* A graph with more than the dataset's type was built of a record whose
\* legacy resource list is empty and that has no current one.
C19_Witness ==
    /\ rdf.built /\ ~rdf.raised
    /\ "recursos" \in DOMAIN record /\ record["recursos"] = PyList(<<>>)
    /\ "resources" \notin DOMAIN record
    /\ Cardinality(rdf.triples) > 1

------------------------------------------------------------------------------
(* Claims about validate_rdf *)

\* The fallback sequence without the guessed format, and the places in it of
\* the formats in which the content parses to a graph with triples
Fallbacks == Remove(FormatsToTry, rdf_format)
Parsing == {i \in 1..Len(Fallbacks) : file_content.parses[Fallbacks[i]] = "triples"}

\* C20 (as claimed): validate_rdf parses with the guessed format first; when
\* that attempt raises or leaves the graph empty, it tries the formats of the
\* fallback sequence (turtle, xml, json-ld, ntriples, n3, without the guessed
\* one) in order, up to the first that gives a graph with triples; the
\* validation then goes on with the graph of the accepted attempt, and the
\* call returns a parse error only when no attempt gave triples.
C20_ParseFallback ==
    (at = "done" /\ file_content.utf8) =>
        IF file_content.parses[rdf_format] = "triples"
        THEN /\ attempts = <<rdf_format>>
             /\ data_graph = [format |-> rdf_format, populated |-> TRUE]
             /\ result \in ShaclOutcomes
        ELSE IF Parsing = {}
        THEN /\ attempts = <<rdf_format>> \o Fallbacks
             /\ result = "parse_error"
        ELSE /\ attempts = <<rdf_format>> \o SubSeq(Fallbacks, 1, SetMin(Parsing))
             /\ data_graph = [format |-> Fallbacks[SetMin(Parsing)], populated |-> TRUE]
             /\ result \in ShaclOutcomes

\* The shapes files that exist: those of the directory that was found
Loaded == {shacl_graph[i] : i \in 1..Len(shacl_graph)}

\* C21 (as claimed): of the four shapes files (shapes.ttl, range.ttl,
\* shapes_recommended.ttl, mdr-vocabularies.shape.ttl) each one missing from
\* the SHACL directory is passed over and the others are loaded, for any
\* missing subset and also when shapes.ttl itself is missing; validate_rdf
\* returns a configuration error only when none of the four is there.  So a
\* call that ended for want of the SHACL files was given no directory holding
\* any shapes file.
C21_MissingSkipped ==
    (at = "done" /\ result \in {"no_shacl_dir", "no_shacl_files"}) =>
        \A i \in DOMAIN possible_paths : possible_paths[i].files = {}

\* The return statements that report a failure
FailureReturns ==
    {"decode_error", "parse_error", "empty_graph", "no_shacl_dir", "no_shacl_files",
     "shacl_load_error", "validation_error"}

TextLines == IF Truthy(engine.v_text) THEN Split(engine.v_text.s, "\n") ELSE <<>>
Mentions(line, word) == Contains(Lower(line), word)
AsError(line) ==
    /\ Strip(line) # <<>>
    /\ \/ Mentions(line, <<"v", "i", "o", "l", "a", "t", "i", "o", "n">>)
       \/ Mentions(line, <<"e", "r", "r", "o", "r">>)
AsWarning(line) ==
    /\ Strip(line) # <<>>
    /\ ~AsError(line)
    /\ Mentions(line, <<"w", "a", "r", "n", "i", "n", "g">>)

C24_ErrorsFollowConforms ==
    (at = "done" /\ result \in {"conforms", "violations"}) =>
        IF engine.conforms
        THEN returned.conforms /\ returned.errors = <<>>
        ELSE ~returned.conforms /\ \E k \in 1..Len(returned.errors) : returned.errors[k] # <<>>

------------------------------------------------------------------------------
(* Claims about process_csv *)

\* How many entries of results and of errors the i-th record has
EntriesOf(i) ==
    Cardinality({k \in DOMAIN results : results[k].dataset_id = datasets[i]})
        + Cardinality({k \in DOMAIN errors : errors[k].dataset_id = datasets[i]})

------------------------------------------------------------------------------
(* Claims about web_scrap *)

\* The first of title, display_name and name of an organization object that
\* is not empty (an empty text when there is none)
TitleFirst(org) ==
    Or(Or(Or(Get(org.d, "title"), Get(org.d, "display_name")), Get(org.d, "name")), PyStr(<<>>)).s

\* C26 (as claimed): where an organization is reduced to a name, the name of
\* an organization object is the first non-empty of its title, its
\* display_name and its name, in this order, and an organization given as a
\* text is used as it is.  Here for _detail_to_row_5k: the column organizacao
\* of the row it returns.
C26_OrganizationName ==
    (row_5k.called /\ detail.organization.kind \in {"dict", "str"}) =>
        /\ ~row_5k.raised
        /\ row_5k.v.organizacao =
              (IF detail.organization.kind = "str" THEN detail.organization.s
               ELSE TitleFirst(detail.organization))

\* The fields of a resource: the name in the row of the scraper and inside
\* the two containers, and the resource's own keys as api_to_rdf reads them
ResourceFields ==
    { [key |-> "titulo", own |-> <<"name", "titulo">>],
      [key |-> "descricao", own |-> <<"description", "descricao">>],
      [key |-> "formato", own |-> <<"format", "formato">>],
      [key |-> "link", own |-> <<"url", "link">>],
      [key |-> "dataCatalogacao", own |-> <<"created", "dataCatalogacao">>],
      [key |-> "dataUltimaAtualizacaoArquivo", own |-> <<"last_modified", "dataUltimaAtualizacaoArquivo">>],
      [key |-> "tipo", own |-> <<"tipo", "tipo">>],
      [key |-> "tamanho", own |-> <<"size", "tamanho">>] }

\* The value of a field by the claimed order, which is the one of api_to_rdf:
\* the resource's own keys, then recursoApiView, then recursoForm
Selected(resource, field) ==
    ResourceField(resource, Or(Get(resource, field.own[1]), Get(resource, field.own[2])), field.key).v

\* C27 (as claimed): each field of a resource (title, description, format,
\* URL, creation date, modification date, type, size) is chosen on its own as
\* the first non-empty value of the resource's own keys, then of its
\* recursoApiView, then of its recursoForm, in the scraper as in the graph
\* builder.  Here for _detail_to_row_5k: the resources of the row it returns
\* hold, field by field, the value so chosen, and an empty value where there
\* is none.
C27_ResourceFields ==
    (row_5k.called /\ ~row_5k.raised) =>
        \A i \in 1..Len(row_5k.v.recursos) : \A field \in ResourceFields :
            LET resource == detail.resources.l[i].d
                chosen == Selected(resource, field)
            IN  IF Truthy(chosen) THEN row_5k.v.recursos[i][field.key] = chosen
                ELSE ~Truthy(row_5k.v.recursos[i][field.key])

------------------------------------------------------------------------------
(* Claims about a forced reload *)

\* The categories cached in m other than c, with their tables.
Others(m, c) == [k \in (DOMAIN m) \ {c} |-> m[k]]

\* Neither the local read nor the remote fetch of the call gave an entry.
YieldedNothing(t) ==
    /\ out[t].local \in {"nopath", "missing", "error", "empty"}
    /\ out[t].remote \in {"nourl", "error", "timeout", "empty"}

\* C28: a forced reload whose local and remote loads both yield nothing
\* returns an empty table and leaves the cache as it was, the table of its
\* category included; a forced reload that yields a non-empty table returns
\* it and makes it the cached table of its category; in both cases the
\* cached tables of the other categories stay as they were, up to the return
\* of the call; and a later call without force_reload whose category is
\* cached is answered with the cached table, which it leaves as it is.
C28_ForcedReloadFrame ==
    [][LET c == call["t1"].vocab_name IN
       /\ (call["t1"].force_reload /\ pc["t1"] \in {"check", "local", "remote"})
              => vocab_cache' = vocab_cache
       /\ (call["t1"].force_reload /\ pc["t1"] = "store")
              => /\ Others(vocab_cache', c) = Others(vocab_cache, c)
                 /\ IF YieldedNothing("t1")
                    THEN /\ ret'["t1"].table = EmptyTable
                         /\ vocab_cache' = vocab_cache
                    ELSE /\ ret'["t1"].table # EmptyTable
                         /\ c \in DOMAIN vocab_cache'
                         /\ vocab_cache'[c] = ret'["t1"].table
       /\ (~call["t1"].force_reload /\ pc["t1"] = "check" /\ c \in DOMAIN vocab_cache
             /\ ~(call["t1"].fn = "convert_to_iri" /\ call["t1"].value = <<>>))
              => /\ ret'["t1"].table = vocab_cache[c]
                 /\ vocab_cache' = vocab_cache
      ]_vars

\* A forced reload of a cached category has yielded nothing and returned an
\* empty table, with the old table and that of another category in the cache.
C28_Witness ==
    /\ pc["t1"] = "done"
    /\ call["t1"].force_reload
    /\ out["t1"].path = "load"
    /\ YieldedNothing("t1")
    /\ ret["t1"].table = EmptyTable
    /\ call["t1"].vocab_name \in DOMAIN vocab_cache
    /\ vocab_cache[call["t1"].vocab_name] # EmptyTable
    /\ DOMAIN vocab_cache # {call["t1"].vocab_name}

------------------------------------------------------------------------------
(* Claims about buscar_detalhes *)

\* The requests made so far asked for the rows the limit still allows.
PageSizesWithinLimit ==
    \A i \in 1..Len(requested) :
        requested[i].page_size =
            Min(tamanho_pagina, max_registros.n - requested[i].held)

\* A failed request, an empty page or a page shorter than requested is the
\* last one, and the loop is over.
StopsAtFirstShortPage ==
    \A i \in 1..Len(pages) :
        (pages[i] = -1 \/ pages[i] = 0 \/ pages[i] < requested[i].page_size)
            => (i = Len(pages) /\ scrape_at = "done")

\* C29: in buscar_detalhes with max_registros = M, whatever the server
\* answers, each requested page size is min(tamanho_pagina, M - rows
\* collected so far), the loop stops at the first failed request, empty page
\* or page shorter than requested, and the result never holds more than M rows.
C29_AtMostMaxRegistros ==
    (scrape_at \in {"loop", "done"} /\ max_registros # PyNone)
        => /\ PageSizesWithinLimit
           /\ StopsAtFirstShortPage
           /\ Len(collected) <= max_registros.n

------------------------------------------------------------------------------
(* Claims about the distribution nodes *)

\* The id value of a resource, "unknown" when it has no such key.
IdValue(resource) == GetDef(resource.d, "id", PyStr(<<"unknown">>))

\* C30 (as claimed): a built graph has as many distribution nodes as the
\* record's resources have distinct id values, a missing id counting as
\* "unknown", so that resources are merged into one node exactly when they
\* share an id value or both have none; and the dataset has one
\* dcat:distribution link to each of these nodes.
C30_OneNodePerIdValue ==
    (rdf.built /\ ~rdf.raised) =>
        /\ Cardinality(TypedDistributions) =
               Cardinality({IdValue(r) : r \in RecordResources})
        /\ DistributionNodes = TypedDistributions

====
